---------------------------- MODULE Spec2Model ----------------------------
(***************************************************************************)
(* Model of the list-level passes of pkg/transformer/kubernetes/k8sutils.go *)
(* (SortServicesFirst, RemoveDupObjects, fixNetworkModeToService), of the   *)
(* service grouping (KomposeObjectToServiceConfigGroupMapping), of the      *)
(* autoscaler values (getResourceHpaValues), of the names, probes, volume,  *)
(* policy and security steps of the pod spec builder, and of                *)
(* UpdateKubernetesObjects with its template filler.                        *)
(*                                                                         *)
(* Go strings are modelled as sequences of one-character strings, so that  *)
(* concatenation, substring search, splitting, ordering and parsing are    *)
(* computed as the code computes them.  <<>> is the empty string.  Strings *)
(* the code only compares with a literal (kinds, label keys, the grouping  *)
(* mode) are TLA+ strings.                                                 *)
(***************************************************************************)
EXTENDS Integers, Sequences, FiniteSets, TLC

VARIABLES
    objects,            \* *objs / *objects: the []runtime.Object being processed
    objects0,           \* the list as it was before the last pass ran
    services,           \* map[string]kobject.ServiceConfig given to fixNetworkModeToService
    lastOp,             \* name of the last pass / function that ran ("" = none yet)
    steps,              \* number of passes run so far
    serviceConfigs,     \* komposeObject.ServiceConfigs
    serviceConfigs0,    \* komposeObject.ServiceConfigs before the grouping ran
    groupMode,          \* opt.ServiceGroupMode
    serviceConfigGroup, \* result of KomposeObjectToServiceConfigGroupMapping
    hpaLabels,          \* service.Labels restricted to the four HPA labels
    intSize,            \* width of Go's int on the build: 32 or 64
    hpaValues,          \* result of getResourceHpaValues
    podService,         \* the kobject.ServiceConfig handed to a pod-level function
    opt,                \* kobject.ConvertOptions
    podSpec,            \* the PodSpec under construction
    podSpec0,           \* the PodSpec before the last step
    arg,                \* argument of the last step besides the service
    outcome,            \* "" = nothing ran, "ok", "error" (error returned), "panic"
    ret                 \* value returned by the last function

vars == <<objects, objects0, services, lastOp, steps, serviceConfigs,
          serviceConfigs0, groupMode, serviceConfigGroup, hpaLabels, intSize,
          hpaValues, podService, opt, podSpec, podSpec0, arg, outcome, ret>>

objVars == <<objects, objects0, services, lastOp, steps>>
groupVars == <<serviceConfigs, serviceConfigs0, groupMode, serviceConfigGroup>>
hpaVars == <<hpaLabels, intSize, hpaValues>>
podVars == <<podService, opt, podSpec, podSpec0, arg, outcome, ret>>

----------------------------------------------------------------------------
(* Bounds of the model *)

\* longest object list drawn in Init
MaxObjs == 3
\* number of passes run one after the other
MaxSteps == 2

----------------------------------------------------------------------------
(* Generic helpers *)

\* all sequences over S of length at most n
SeqsUpTo(S, n) == UNION {[1..k -> S] : k \in 0..n}

\* all orders in which a Go map with key set S can be iterated
MapOrders(S) == {o \in [1..Cardinality(S) -> S] : \A i, j \in 1..Cardinality(S) : o[i] = o[j] => i = j}

\* strings.Contains(s, substr)
Contains(s, substr) ==
    \E i \in 1..(Len(s) - Len(substr) + 1) : SubSeq(s, i, i + Len(substr) - 1) = substr

RECURSIVE SplitFrom(_, _, _, _)
\* strings.Split(s, sep) for a one-character sep: cur is the segment being read
SplitFrom(s, sep, i, cur) ==
    IF i > Len(s) THEN <<cur>>
    ELSE IF s[i] = sep THEN <<cur>> \o SplitFrom(s, sep, i + 1, <<>>)
    ELSE SplitFrom(s, sep, i + 1, Append(cur, s[i]))

Split(s, sep) == SplitFrom(s, sep, 1, <<>>)

----------------------------------------------------------------------------
(* runtime.Object                                                          *)
(* kind      : the object's TypeMeta; every Kind the pipeline emits has one *)
(*             fixed apiVersion, so Kind stands for the GroupVersionKind    *)
(* namespace : ObjectMeta.Namespace      name : ObjectMeta.Name             *)
(* containers: Spec.Template.Spec.Containers (container names), workloads   *)
(* data      : the rest of the object's content                             *)
(* An object of kind "List" has no ObjectMeta (it is no metav1.Object).     *)

NetworkModeService == <<"s", "e", "r", "v", "i", "c", "e", ":">>

Obj(k, ns, n, c, d) == [kind |-> k, namespace |-> ns, name |-> n, containers |-> c, data |-> d]

\* obj.(metav1.Object)
IsMetaObject(obj) == obj.kind # "List"

\* obj.(*appsv1.Deployment)
IsDeployment(obj) == obj.kind = "Deployment"

\* the key of RemoveDupObjects: GroupVersionKind().String() + GetNamespace() + GetName()
ObjectKey(obj) == <<obj.kind>> \o obj.namespace \o obj.name

\* the identity of an object: (kind, namespace, name)
Identity(obj) == <<obj.kind, obj.namespace, obj.name>>

----------------------------------------------------------------------------
(* SortServicesFirst *)

SortServicesFirstOthersFirst(objs) ==
    SelectSeq(objs, LAMBDA o : o.kind # "Service") \o SelectSeq(objs, LAMBDA o : o.kind = "Service")

\* a mutant: the Services come first, in reverse order
SortServicesFirstReversed(objs) ==
    LET svc == SelectSeq(objs, LAMBDA o : o.kind = "Service")
    IN [i \in 1..Len(svc) |-> svc[Len(svc) + 1 - i]]
          \o SelectSeq(objs, LAMBDA o : o.kind # "Service")

SortServicesFirst(objs) ==
    LET svc == SelectSeq(objs, LAMBDA o : o.kind = "Service")
        others == SelectSeq(objs, LAMBDA o : o.kind # "Service")
    IN svc \o others

----------------------------------------------------------------------------
(* RemoveDupObjects *)

RECURSIVE RemoveDupLoop(_, _, _, _)
\* the loop of RemoveDupObjects at index i, with its locals result and exist
RemoveDupLoop(objs, i, result, exist) ==
    IF i > Len(objs) THEN result
    ELSE LET obj == objs[i] IN
        IF IsMetaObject(obj)
        THEN LET k == ObjectKey(obj) IN
            IF k \in exist
            THEN RemoveDupLoop(objs, i + 1, result, exist)
            ELSE RemoveDupLoop(objs, i + 1, Append(result, obj), exist \cup {k})
        ELSE RemoveDupLoop(objs, i + 1, Append(result, obj), exist)

\* the loop with exist[k] = true forgotten: nothing is ever seen as a duplicate
RemoveDupObjectsNeverMarks(objs) == objs

\* a mutant: one run drops only the first duplicate it meets
RemoveDupObjectsOnePerRun(objs) ==
    LET dups == {j \in 1..Len(objs) :
                    /\ IsMetaObject(objs[j])
                    /\ \E i \in 1..(j - 1) :
                          IsMetaObject(objs[i]) /\ ObjectKey(objs[i]) = ObjectKey(objs[j])}
        d == CHOOSE j \in dups : \A k \in dups : j <= k
    IN IF dups = {} THEN objs
       ELSE [i \in 1..(Len(objs) - 1) |-> IF i < d THEN objs[i] ELSE objs[i + 1]]

RemoveDupObjects(objs) == RemoveDupLoop(objs, 1, <<>>, {})

----------------------------------------------------------------------------
(* fixNetworkModeToService                                                  *)
(* services is a function from the map's keys to [Name, NetworkMode];       *)
(* order is the order in which the range over the map visits the keys.      *)

Mapping(src, tgt) == [SourceDeploymentName |-> src, TargetDeploymentName |-> tgt]

RECURSIVE searchNetworkModeToServiceFrom(_, _, _)
searchNetworkModeToServiceFrom(svcs, order, i) ==
    IF i > Len(order) THEN <<>>
    ELSE LET service == svcs[order[i]]
             splitted == Split(service.NetworkMode, ":")
             rest == searchNetworkModeToServiceFrom(svcs, order, i + 1)
         IN IF ~Contains(service.NetworkMode, NetworkModeService) THEN rest
            ELSE IF Len(splitted) < 2 THEN rest
            ELSE <<Mapping(service.Name, splitted[2])>> \o rest

searchNetworkModeToService(svcs, order) == searchNetworkModeToServiceFrom(svcs, order, 1)

\* the append skipped: the target keeps its own containers only
addContainersToTargetDeploymentNoAppend(objs, containersToAppend, nameDeploymentToTransfer) == objs

\* the source's containers put in front of the target's
addContainersToTargetDeploymentPrepend(objs, containersToAppend, nameDeploymentToTransfer) ==
    [j \in 1..Len(objs) |->
        IF IsDeployment(objs[j]) /\ objs[j].name = nameDeploymentToTransfer
        THEN [objs[j] EXCEPT !.containers = containersToAppend \o @]
        ELSE objs[j]]

addContainersToTargetDeployment(objs, containersToAppend, nameDeploymentToTransfer) ==
    [j \in 1..Len(objs) |->
        IF IsDeployment(objs[j]) /\ objs[j].name = nameDeploymentToTransfer
        THEN [objs[j] EXCEPT !.containers = @ \o containersToAppend]
        ELSE objs[j]]

RECURSIVE addContainersFromSourceLoop(_, _, _)
\* the range of addContainersFromSourceToTargetDeployment at index i; the
\* objects are pointers, so a source visited later is read as already merged
addContainersFromSourceLoop(objs, currentDeploymentMap, i) ==
    IF i > Len(objs) THEN objs
    ELSE IF IsDeployment(objs[i]) /\ objs[i].name = currentDeploymentMap.SourceDeploymentName
    THEN addContainersFromSourceLoop(
            addContainersToTargetDeployment(objs, objs[i].containers,
                                            currentDeploymentMap.TargetDeploymentName),
            currentDeploymentMap, i + 1)
    ELSE addContainersFromSourceLoop(objs, currentDeploymentMap, i + 1)

addContainersFromSourceToTargetDeployment(objs, currentDeploymentMap) ==
    addContainersFromSourceLoop(objs, currentDeploymentMap, 1)

RECURSIVE mergeContainersFrom(_, _, _)
mergeContainersFrom(deploymentMappings, objs, i) ==
    IF i > Len(deploymentMappings) THEN objs
    ELSE mergeContainersFrom(deploymentMappings,
            addContainersFromSourceToTargetDeployment(objs, deploymentMappings[i]), i + 1)

mergeContainersIntoDestinationDeployment(deploymentMappings, objs) ==
    mergeContainersFrom(deploymentMappings, objs, 1)

\* removes the first element reflect.DeepEqual to objectToRemove
removeFromSlice(objs, objectToRemove) ==
    IF \E i \in 1..Len(objs) : objs[i] = objectToRemove
    THEN LET i == CHOOSE k \in 1..Len(objs) :
                    /\ objs[k] = objectToRemove
                    /\ \A l \in 1..(k - 1) : objs[l] # objectToRemove
         IN SubSeq(objs, 1, i - 1) \o SubSeq(objs, i + 1, Len(objs))
    ELSE objs

RECURSIVE removeTargetDeploymentLoop(_, _, _)
\* the downward loop of removeTargetDeployment; i is the 1-based index
removeTargetDeploymentLoop(objs, targetDeploymentName, i) ==
    IF i < 1 THEN objs
    ELSE IF IsDeployment(objs[i]) /\ objs[i].name = targetDeploymentName
    THEN removeTargetDeploymentLoop(removeFromSlice(objs, objs[i]), targetDeploymentName, i - 1)
    ELSE removeTargetDeploymentLoop(objs, targetDeploymentName, i - 1)

\* the removal skipped: the source deployment stays in the list
removeTargetDeploymentKeeps(objs, targetDeploymentName) == objs

RECURSIVE removeTargetDeploymentLoopAboveFirst(_, _, _)
removeTargetDeploymentLoopAboveFirst(objs, targetDeploymentName, i) ==
    IF i < 2 THEN objs
    ELSE IF IsDeployment(objs[i]) /\ objs[i].name = targetDeploymentName
    THEN removeTargetDeploymentLoopAboveFirst(removeFromSlice(objs, objs[i]), targetDeploymentName, i - 1)
    ELSE removeTargetDeploymentLoopAboveFirst(objs, targetDeploymentName, i - 1)

\* a mutant: the downward loop stops before the first element (i > 0)
removeTargetDeploymentSkipsFirst(objs, targetDeploymentName) ==
    removeTargetDeploymentLoopAboveFirst(objs, targetDeploymentName, Len(objs))

removeTargetDeployment(objs, targetDeploymentName) ==
    removeTargetDeploymentLoop(objs, targetDeploymentName, Len(objs))

RECURSIVE removeDeploymentTransferedFrom(_, _, _)
removeDeploymentTransferedFrom(deploymentMappings, objs, i) ==
    IF i > Len(deploymentMappings) THEN objs
    ELSE removeDeploymentTransferedFrom(deploymentMappings,
            removeTargetDeployment(objs, deploymentMappings[i].SourceDeploymentName), i + 1)

removeDeploymentTransfered(deploymentMappings, objs) ==
    removeDeploymentTransferedFrom(deploymentMappings, objs, 1)

fixNetworkModeToService(objs, svcs, order) ==
    LET deploymentMappings == searchNetworkModeToService(svcs, order)
    IN IF Len(deploymentMappings) = 0 THEN objs
       ELSE removeDeploymentTransfered(deploymentMappings,
                mergeContainersIntoDestinationDeployment(deploymentMappings, objs))

----------------------------------------------------------------------------
(* Inputs of the list passes *)

NoServices == <<>>
NoGroups == <<>>
NoHpaValues == [MinReplicas |-> 0, MaxReplicas |-> 0, CPUtilization |-> 0, MemoryUtilization |-> 0]

\* objects given to the sort and the deduplication: two Services, ConfigMaps
\* that repeat an identity with other content, that differ in namespace and
\* name, a Deployment and an object without ObjectMeta
PostUniverse ==
    { Obj("Service", <<>>, <<"b">>, <<>>, 1),
      Obj("Service", <<"a">>, <<"b">>, <<>>, 1),
      Obj("ConfigMap", <<"a">>, <<"b">>, <<>>, 1),
      Obj("ConfigMap", <<"a">>, <<"b">>, <<>>, 2),
      Obj("ConfigMap", <<>>, <<"a", "b">>, <<>>, 1),
      Obj("ConfigMap", <<>>, <<"b">>, <<>>, 1),
      Obj("Deployment", <<>>, <<"b">>, <<<<"b">>>>, 1),
      Obj("List", <<>>, <<>>, <<>>, 1) }

\* names of the services of the network-mode merge
SvcNames == {<<"a">>, <<"b">>, <<"c">>}

\* ServiceConfig.NetworkMode values: none, "host", "service:<name>"
NetworkModes == {<<>>, <<"h", "o", "s", "t">>} \cup {NetworkModeService \o n : n \in SvcNames}

\* the Deployment generated for a service; b is a two-container workload
DeploymentOf(n) ==
    Obj("Deployment", <<>>, n, IF n = <<"b">> THEN <<n, <<"x">>>> ELSE <<n>>, 1)

NetUniverse ==
    {DeploymentOf(n) : n \in SvcNames} \cup {Obj("Service", <<>>, <<"a">>, <<>>, 1)}

\* object lists of the merge: every object at most once
NetLists ==
    {l \in SeqsUpTo(NetUniverse, MaxObjs) : \A i, j \in 1..Len(l) : l[i] = l[j] => i = j}

IdleGroup ==
    /\ serviceConfigs = NoServices
    /\ serviceConfigs0 = NoServices
    /\ groupMode = ""
    /\ serviceConfigGroup = NoGroups

IdleHpa ==
    /\ hpaLabels = <<>>
    /\ intSize = 64
    /\ hpaValues = NoHpaValues

IdlePod ==
    /\ podService = <<>>
    /\ opt = <<>>
    /\ podSpec = <<>>
    /\ podSpec0 = <<>>
    /\ arg = <<>>
    /\ outcome = ""
    /\ ret = <<>>

IdleObjects ==
    /\ objects = <<>>
    /\ objects0 = <<>>
    /\ services = NoServices
    /\ lastOp = ""
    /\ steps = 0

InitObjects ==
    /\ objects \in SeqsUpTo(PostUniverse, MaxObjs)
    /\ objects0 = objects
    /\ services = NoServices
    /\ lastOp = ""
    /\ steps = 0
    /\ IdleGroup
    /\ IdleHpa
    /\ IdlePod

InitNet ==
    /\ objects \in NetLists
    /\ objects0 = objects
    /\ services \in {[n \in SvcNames |-> [Name |-> n, NetworkMode |-> m[n]]] : m \in [SvcNames -> NetworkModes]}
    /\ lastOp = ""
    /\ steps = 0
    /\ IdleGroup
    /\ IdleHpa
    /\ IdlePod

----------------------------------------------------------------------------
(* The passes as actions *)

SortServicesFirstStep ==
    /\ steps < MaxSteps
    /\ objects' = SortServicesFirst(objects)
    /\ objects0' = objects
    /\ lastOp' = "SortServicesFirst"
    /\ steps' = steps + 1
    /\ UNCHANGED <<services, groupVars, hpaVars, podVars>>

RemoveDupObjectsStep ==
    /\ steps < MaxSteps
    /\ objects' = RemoveDupObjects(objects)
    /\ objects0' = objects
    /\ lastOp' = "RemoveDupObjects"
    /\ steps' = steps + 1
    /\ UNCHANGED <<services, groupVars, hpaVars, podVars>>

\* the range over the services map visits the keys in any order
FixNetworkModeToServiceStep ==
    /\ steps < MaxSteps
    /\ \E order \in MapOrders(DOMAIN services) :
          objects' = fixNetworkModeToService(objects, services, order)
    /\ objects0' = objects
    /\ lastOp' = "fixNetworkModeToService"
    /\ steps' = steps + 1
    /\ UNCHANGED <<services, groupVars, hpaVars, podVars>>

NextObjects == SortServicesFirstStep \/ RemoveDupObjectsStep

SpecObjects == InitObjects /\ [][NextObjects]_vars

NextNet == FixNetworkModeToServiceStep \/ SortServicesFirstStep \/ RemoveDupObjectsStep

SpecNet == InitNet /\ [][NextNet]_vars

----------------------------------------------------------------------------
(* Vocabulary of the claims about the list passes *)

Range(seq) == {seq[i] : i \in 1..Len(seq)}

RECURSIVE PickIndices(_, _, _)
\* the elements of seq at the indices in keep, in the order of seq
PickIndices(seq, keep, i) ==
    IF i > Len(seq) THEN <<>>
    ELSE (IF i \in keep THEN <<seq[i]>> ELSE <<>>) \o PickIndices(seq, keep, i + 1)

HasDeployment(objs, n) == \E i \in 1..Len(objs) : IsDeployment(objs[i]) /\ objs[i].name = n

\* the containers of the Deployment named n in objs
ContainersOf(objs, n) ==
    objs[CHOOSE i \in 1..Len(objs) : IsDeployment(objs[i]) /\ objs[i].name = n].containers

\* service n declares a "service:" network mode (whatever its target)
DeclaresJoin(n) == Contains(services[n].NetworkMode, NetworkModeService)

\* service n declares network mode "service:<t>"
Joins(n, t) == services[n].NetworkMode = NetworkModeService \o t

\* A joins B, both are Deployments of the input, A is not B
JoinCase(A, B) ==
    /\ A # B
    /\ Joins(A, B)
    /\ HasDeployment(objects0, A)
    /\ HasDeployment(objects0, B)

\* the join of A into B is the only one that touches A or B
OnlyJoin(A, B) ==
    /\ ~DeclaresJoin(B)
    /\ \A C \in DOMAIN services \ {A} : ~Joins(C, A) /\ ~Joins(C, B)

\* c begins with b0 and holds a0 as one block after it
BeginsWithThenHolds(c, b0, a0) ==
    /\ Len(c) >= Len(b0) + Len(a0)
    /\ SubSeq(c, 1, Len(b0)) = b0
    /\ \E k \in Len(b0)..(Len(c) - Len(a0)) : SubSeq(c, k + 1, k + Len(a0)) = a0

C2_NoDuplicateIdentity ==
    lastOp = "RemoveDupObjects" =>
        \A i, j \in 1..Len(objects) :
            (i < j /\ IsMetaObject(objects[i]) /\ IsMetaObject(objects[j]))
                => Identity(objects[i]) # Identity(objects[j])

\* the input repeated an identity and the pass dropped the repetition
C2_Witness ==
    /\ lastOp = "RemoveDupObjects"
    /\ \E i, j \in 1..Len(objects0) :
          i < j /\ IsMetaObject(objects0[i]) /\ Identity(objects0[i]) = Identity(objects0[j])
    /\ Len(objects) < Len(objects0)
    /\ Len(objects) >= 2

\* indices of the objects that are the first of the list with their identity
FirstOfIdentity(objs) ==
    {i \in 1..Len(objs) :
        IsMetaObject(objs[i]) =>
            \A j \in 1..(i - 1) : IsMetaObject(objs[j]) => Identity(objs[j]) # Identity(objs[i])}

\* C3: RemoveDupObjects keeps exactly the first object of every identity
\* (kind, namespace, name) of the input, in input order, and drops the later ones.
C3_KeepsFirstOfEachIdentity ==
    lastOp = "RemoveDupObjects" =>
        objects = PickIndices(objects0, FirstOfIdentity(objects0), 1)

IsService(o) == o.kind = "Service"
IsNotService(o) == o.kind # "Service"

\* number of times o occurs in seq
Occurrences(seq, o) == Cardinality({i \in 1..Len(seq) : seq[i] = o})

\* C4: SortServicesFirst is a stable partition: Services precede all other
\* kinds, the output is a permutation of the input, and the Services and the
\* other objects each keep their input order.
C4_StablePartition ==
    lastOp = "SortServicesFirst" =>
        /\ \A i, j \in 1..Len(objects) : (i < j /\ IsService(objects[j])) => IsService(objects[i])
        /\ Len(objects) = Len(objects0)
        /\ \A o \in Range(objects0) \cup Range(objects) :
              Occurrences(objects, o) = Occurrences(objects0, o)
        /\ SelectSeq(objects, IsService) = SelectSeq(objects0, IsService)
        /\ SelectSeq(objects, IsNotService) = SelectSeq(objects0, IsNotService)

\* a list with two Services behind another object was reordered
C4_Witness ==
    /\ lastOp = "SortServicesFirst"
    /\ objects # objects0
    /\ Len(SelectSeq(objects0, IsService)) >= 2
    /\ ~IsService(objects0[1])
    /\ IsService(objects[1])

\* C5: the list produced by fixNetworkModeToService is the same for every
\* order in which the services map is iterated.
C5_IterationOrderIndependent ==
    lastOp = "fixNetworkModeToService" =>
        \A order \in MapOrders(DOMAIN services) :
            fixNetworkModeToService(objects0, services, order) = objects

----------------------------------------------------------------------------
(* Service grouping                                                        *)
(* A ServiceConfig is [Name, Labels, VolList, InGroup]; Labels is a        *)
(* function from the label keys that are set to their values.              *)

LabelServiceGroup == "kompose.service.group"

\* the characters of the model in byte order
Alphabet == <<"+", "-", "0", "1", "2", "3", "4", "5", "6", "7", "8", "9", ":",
              "a", "b", "c", "e", "g", "h", "i", "o", "r", "s", "t", "v", "x">>

CharCode(c) == CHOOSE i \in 1..Len(Alphabet) : Alphabet[i] = c

RECURSIVE StrLess(_, _)
\* s < t for Go strings: bytewise lexicographic order
StrLess(s, t) ==
    IF t = <<>> THEN FALSE
    ELSE IF s = <<>> THEN TRUE
    ELSE IF Head(s) # Head(t) THEN CharCode(Head(s)) < CharCode(Head(t))
    ELSE StrLess(Tail(s), Tail(t))

RECURSIVE InsertSorted(_, _)
InsertSorted(seq, s) ==
    IF seq = <<>> THEN <<s>>
    ELSE IF StrLess(s, Head(seq)) THEN <<s>> \o seq
    ELSE <<Head(seq)>> \o InsertSorted(Tail(seq), s)

RECURSIVE SortStrings(_)
\* sort.Strings
SortStrings(seq) ==
    IF seq = <<>> THEN <<>>
    ELSE InsertSorted(SortStrings(SubSeq(seq, 1, Len(seq) - 1)), seq[Len(seq)])

\* the sort.Strings call left out: the keys stay in map iteration order
SortedKeysUnsorted(serviceConfig, order) == order

\* order is the order in which the range over serviceConfig visits its keys
SortedKeys(serviceConfig, order) == SortStrings(order)

\* labels[key] of a Go map: the empty string when the key is not set
GetLabel(labels, key) == IF key \in DOMAIN labels THEN labels[key] ELSE <<>>

RECURSIVE getServiceVolumesIDFrom(_, _, _)
\* the loop id += v at index i
getServiceVolumesIDFrom(volList, i, id) ==
    IF i > Len(volList) THEN id
    ELSE getServiceVolumesIDFrom(volList, i + 1, id \o volList[i])

RECURSIVE getServiceVolumesIDReversedFrom(_, _, _)
getServiceVolumesIDReversedFrom(volList, i, id) ==
    IF i > Len(volList) THEN id
    ELSE getServiceVolumesIDReversedFrom(volList, i + 1, volList[i] \o id)

\* id = v + id instead of id += v
getServiceVolumesIDReversed(service) == getServiceVolumesIDReversedFrom(service.VolList, 1, <<>>)

getServiceVolumesID(service) == getServiceVolumesIDFrom(service.VolList, 1, <<>>)

getServiceGroupID(service, mode) ==
    IF mode = "label" THEN GetLabel(service.Labels, LabelServiceGroup)
    ELSE IF mode = "volume" THEN getServiceVolumesID(service)
    ELSE <<>>

\* serviceConfigGroup[groupID] = append(serviceConfigGroup[groupID], serviceConfig)
AppendToGroup(groups, groupID, serviceConfig) ==
    [g \in DOMAIN groups \cup {groupID} |->
        IF g = groupID
        THEN (IF g \in DOMAIN groups THEN groups[g] ELSE <<>>) \o <<serviceConfig>>
        ELSE groups[g]]

RECURSIVE GroupMappingLoop(_, _, _, _, _)
\* the loop of KomposeObjectToServiceConfigGroupMapping at index i
GroupMappingLoop(sortedServiceConfigs, i, mode, configs, groups) ==
    IF i > Len(sortedServiceConfigs)
    THEN [serviceConfigGroup |-> groups, ServiceConfigs |-> configs]
    ELSE LET service == sortedServiceConfigs[i]
             serviceConfig == configs[service]
             groupID == getServiceGroupID(serviceConfig, mode)
             grouped == [serviceConfig EXCEPT !.Name = service, !.InGroup = TRUE]
         IN IF groupID # <<>>
            THEN GroupMappingLoop(sortedServiceConfigs, i + 1, mode,
                                  [configs EXCEPT ![service] = grouped],
                                  AppendToGroup(groups, groupID, grouped))
            ELSE GroupMappingLoop(sortedServiceConfigs, i + 1, mode, configs, groups)

RECURSIVE GroupMappingLoopNoWriteBack(_, _, _, _, _)
\* the loop without komposeObject.ServiceConfigs[service] = serviceConfig
GroupMappingLoopNoWriteBack(sortedServiceConfigs, i, mode, configs, groups) ==
    IF i > Len(sortedServiceConfigs)
    THEN [serviceConfigGroup |-> groups, ServiceConfigs |-> configs]
    ELSE LET service == sortedServiceConfigs[i]
             serviceConfig == configs[service]
             groupID == getServiceGroupID(serviceConfig, mode)
             grouped == [serviceConfig EXCEPT !.Name = service, !.InGroup = TRUE]
         IN IF groupID # <<>>
            THEN GroupMappingLoopNoWriteBack(sortedServiceConfigs, i + 1, mode, configs,
                                             AppendToGroup(groups, groupID, grouped))
            ELSE GroupMappingLoopNoWriteBack(sortedServiceConfigs, i + 1, mode, configs, groups)

KomposeObjectToServiceConfigGroupMappingNoWriteBack(configs, mode, order) ==
    GroupMappingLoopNoWriteBack(SortedKeys(configs, order), 1, mode, configs, NoGroups)

\* returns the group map and the ServiceConfigs map it updates in place
KomposeObjectToServiceConfigGroupMapping(configs, mode, order) ==
    GroupMappingLoop(SortedKeys(configs, order), 1, mode, configs, NoGroups)

----------------------------------------------------------------------------
(* Inputs of the grouping *)

GroupSvcNames == {<<"a">>, <<"a", "b">>, <<"b">>}

GroupLabelValues == {<<>>, <<"g">>, <<"h">>}

GroupLabels == {<<>>} \cup {[k \in {LabelServiceGroup} |-> v] : v \in GroupLabelValues}

GroupVolLists == {<<>>, <<<<"a">>, <<"b">>>>, <<<<"a", "b">>>>, <<<<"b">>, <<"a">>>>}

GroupModes == {"label", "volume", ""}

\* the configs the loader builds for service n: Name is the map key, InGroup unset
ServiceConfigsOf(n) ==
    {[Name |-> n, Labels |-> l, VolList |-> v, InGroup |-> FALSE] :
        l \in GroupLabels, v \in GroupVolLists}

GroupInputs ==
    UNION {{f \in [S -> UNION {ServiceConfigsOf(n) : n \in S}] : \A n \in S : f[n].Name = n} :
            S \in SUBSET GroupSvcNames}

InitGroup ==
    /\ serviceConfigs \in GroupInputs
    /\ serviceConfigs0 = serviceConfigs
    /\ groupMode \in GroupModes
    /\ serviceConfigGroup = NoGroups
    /\ IdleObjects
    /\ IdleHpa
    /\ IdlePod

KomposeObjectToServiceConfigGroupMappingStep ==
    /\ lastOp = ""
    /\ \E order \in MapOrders(DOMAIN serviceConfigs) :
          LET r == KomposeObjectToServiceConfigGroupMapping(serviceConfigs, groupMode, order)
          IN /\ serviceConfigGroup' = r.serviceConfigGroup
             /\ serviceConfigs' = r.ServiceConfigs
    /\ serviceConfigs0' = serviceConfigs
    /\ lastOp' = "KomposeObjectToServiceConfigGroupMapping"
    /\ UNCHANGED <<objects, objects0, services, steps, groupMode, hpaVars, podVars>>

NextGroup == KomposeObjectToServiceConfigGroupMappingStep

SpecGroup == InitGroup /\ [][NextGroup]_vars

----------------------------------------------------------------------------
(* Claims about the grouping *)

GroupingRan == lastOp = "KomposeObjectToServiceConfigGroupMapping"

\* positions <<g, i>> of the group members named n
MemberPositions(n) ==
    {p \in UNION {{<<g, i>> : i \in 1..Len(serviceConfigGroup[g])} : g \in DOMAIN serviceConfigGroup} :
        serviceConfigGroup[p[1]][p[2]].Name = n}

RECURSIVE ConcatAll(_)
\* the strings of seq written one after the other
ConcatAll(seq) == IF seq = <<>> THEN <<>> ELSE Head(seq) \o ConcatAll(Tail(seq))

\* C6: for the same service map and grouping mode, the groups, their members
\* and the updated service map are the same for every iteration order of the
\* map, and the members of each group are in ascending service-name order.
C6_GroupingDeterministic ==
    GroupingRan =>
        /\ \A order \in MapOrders(DOMAIN serviceConfigs0) :
              KomposeObjectToServiceConfigGroupMapping(serviceConfigs0, groupMode, order)
                  = [serviceConfigGroup |-> serviceConfigGroup, ServiceConfigs |-> serviceConfigs]
        /\ \A g \in DOMAIN serviceConfigGroup :
              \A i, j \in 1..Len(serviceConfigGroup[g]) :
                  i < j => StrLess(serviceConfigGroup[g][i].Name, serviceConfigGroup[g][j].Name)

\* the three services a, ab, b share one group, listed in that order
C6_Witness ==
    /\ GroupingRan
    /\ \E g \in DOMAIN serviceConfigGroup :
          /\ Len(serviceConfigGroup[g]) = 3
          /\ serviceConfigGroup[g][1].Name = <<"a">>
          /\ serviceConfigGroup[g][2].Name = <<"a", "b">>
          /\ serviceConfigGroup[g][3].Name = <<"b">>

\* the group ID the claim gives service config sc in the given mode
ClaimedGroupID(sc, mode) ==
    IF mode = "label"
    THEN (IF LabelServiceGroup \in DOMAIN sc.Labels THEN sc.Labels[LabelServiceGroup] ELSE <<>>)
    ELSE IF mode = "volume" THEN ConcatAll(sc.VolList)
    ELSE <<>>

\* C7: getServiceGroupID is the grouping label's value in mode "label", the
\* volume identifiers concatenated in declared order in mode "volume", and
\* empty in any other mode; a service is put in the group keyed by that ID,
\* and in no group when the ID is empty.
C7_GroupID ==
    GroupingRan =>
        \A n \in DOMAIN serviceConfigs0 :
            LET id == ClaimedGroupID(serviceConfigs0[n], groupMode)
            IN /\ getServiceGroupID(serviceConfigs0[n], groupMode) = id
               /\ \A p \in MemberPositions(n) : p[1] = id
               /\ (id = <<>>) <=> (MemberPositions(n) = {})

\* in mode "volume" a service with volumes b, a is grouped under "ba", and in
\* that state a service without volumes is in no group
C7_Witness ==
    /\ GroupingRan
    /\ groupMode = "volume"
    /\ \E n, m \in DOMAIN serviceConfigs0 :
          /\ serviceConfigs0[n].VolList = <<<<"b">>, <<"a">>>>
          /\ \E p \in MemberPositions(n) : p[1] = <<"b", "a">>
          /\ serviceConfigs0[m].VolList = <<>>
          /\ MemberPositions(m) = {}

\* C8: after the grouping a service is a member of a group, exactly one and
\* the one keyed by its group ID, iff its group ID is not empty; exactly those
\* services have InGroup set in the service map; the configs of the other
\* services are unchanged.
C8_GroupedIffNonEmptyID ==
    GroupingRan =>
        /\ DOMAIN serviceConfigs = DOMAIN serviceConfigs0
        /\ \A g \in DOMAIN serviceConfigGroup : \A i \in 1..Len(serviceConfigGroup[g]) :
              serviceConfigGroup[g][i].Name \in DOMAIN serviceConfigs0
        /\ \A n \in DOMAIN serviceConfigs0 :
              LET id == getServiceGroupID(serviceConfigs0[n], groupMode)
              IN /\ id # <<>> =>
                      /\ Cardinality(MemberPositions(n)) = 1
                      /\ \A p \in MemberPositions(n) : p[1] = id
                 /\ id = <<>> =>
                      /\ MemberPositions(n) = {}
                      /\ serviceConfigs[n] = serviceConfigs0[n]
                 /\ serviceConfigs[n].InGroup = (id # <<>>)

\* mode "label": one service carries a group label and is flagged, another
\* carries none and is left alone
C8_Witness ==
    /\ GroupingRan
    /\ groupMode = "label"
    /\ \E n, m \in DOMAIN serviceConfigs0 :
          /\ GetLabel(serviceConfigs0[n].Labels, LabelServiceGroup) = <<"g">>
          /\ serviceConfigs[n].InGroup
          /\ MemberPositions(n) # {}
          /\ serviceConfigs0[m].Labels = <<>>
          /\ ~serviceConfigs[m].InGroup
          /\ MemberPositions(m) = {}

----------------------------------------------------------------------------
(* Horizontal pod autoscaler values                                        *)
(* An integer read from a label is kept as [neg, hi, lo], its magnitude    *)
(* being hi * 2^16 + lo, so that values beyond 32 bits can be told apart;   *)
(* int32 values are plain integers.                                        *)

DefaultMinReplicas == 1
DefaultMaxReplicas == 3
DefaultCPUUtilization == 50
DefaultMemoryUtilization == 70

LabelHpaMinReplicas == "kompose.hpa.replicas.min"
LabelHpaMaxReplicas == "kompose.hpa.replicas.max"
LabelHpaCPU == "kompose.hpa.cpu"
LabelHpaMemory == "kompose.hpa.memory"

LabelKeys == {LabelHpaCPU, LabelHpaMemory, LabelHpaMinReplicas, LabelHpaMaxReplicas}

Digits == <<"0", "1", "2", "3", "4", "5", "6", "7", "8", "9">>

IsDigit(c) == \E i \in 1..Len(Digits) : Digits[i] = c

DigitValue(c) == (CHOOSE i \in 1..Len(Digits) : Digits[i] = c) - 1

Limb == 256 * 256

RECURSIVE ParseDigits(_, _, _, _)
\* the magnitude of the decimal digits s[i..], continuing from hi * 2^16 + lo
ParseDigits(s, i, hi, lo) ==
    IF i > Len(s) THEN [hi |-> hi, lo |-> lo]
    ELSE LET t == lo * 10 + DigitValue(s[i])
         IN ParseDigits(s, i + 1, hi * 10 + (t \div Limb), t % Limb)

\* strconv.Atoi(s) where int has bits bits: [err, neg, hi, lo].  A sign may
\* lead; anything but digits after it is a syntax error; a value that does
\* not fit in int is a range error.
Atoi(s, bits) ==
    LET signed == s # <<>> /\ s[1] \in {"+", "-"}
        neg == s # <<>> /\ s[1] = "-"
        digits == IF signed THEN Tail(s) ELSE s
        syntaxErr == digits = <<>> \/ \E i \in 1..Len(digits) : ~IsDigit(digits[i])
        m == IF syntaxErr THEN [hi |-> 0, lo |-> 0] ELSE ParseDigits(digits, 1, 0, 0)
        rangeErr == /\ bits = 32
                    /\ IF neg THEN m.hi > 32768 \/ (m.hi = 32768 /\ m.lo > 0)
                       ELSE m.hi >= 32768
    IN [err |-> syntaxErr \/ rangeErr, neg |-> neg, hi |-> m.hi, lo |-> m.lo]

\* valueFromLabel < 0
IsNegative(v) == v.neg /\ (v.hi > 0 \/ v.lo > 0)

\* int32(v) for v >= 0: the low 32 bits, read as two's complement
Int32(v) ==
    LET h == v.hi % Limb
    IN IF h >= 32768 THEN (h - Limb) * Limb + v.lo ELSE h * Limb + v.lo

getHpaValue(labels, bits, label, defaultValue) ==
    LET valueFromLabel == Atoi(GetLabel(labels, label), bits)
    IN IF valueFromLabel.err \/ IsNegative(valueFromLabel) THEN defaultValue
       ELSE Int32(valueFromLabel)

\* the upper limit alone is checked
validatePercentageMetricNoLowerLimit(labels, bits, metricLabel, defaultValue) ==
    LET metricValue == getHpaValue(labels, bits, metricLabel, defaultValue)
    IN IF metricValue > 100 THEN defaultValue ELSE metricValue

validatePercentageMetric(labels, bits, metricLabel, defaultValue) ==
    LET metricValue == getHpaValue(labels, bits, metricLabel, defaultValue)
    IN IF metricValue > 100 \/ metricValue < 1 THEN defaultValue ELSE metricValue

\* maxReplicas is not raised to minReplicas
getResourceHpaValuesNoClamp(labels, bits) ==
    [MinReplicas |-> getHpaValue(labels, bits, LabelHpaMinReplicas, DefaultMinReplicas),
     MaxReplicas |-> getHpaValue(labels, bits, LabelHpaMaxReplicas, DefaultMaxReplicas),
     CPUtilization |-> validatePercentageMetric(labels, bits, LabelHpaCPU, DefaultCPUUtilization),
     MemoryUtilization |-> validatePercentageMetric(labels, bits, LabelHpaMemory, DefaultMemoryUtilization)]

getResourceHpaValues(labels, bits) ==
    LET minReplicas == getHpaValue(labels, bits, LabelHpaMinReplicas, DefaultMinReplicas)
        maxReplicas == getHpaValue(labels, bits, LabelHpaMaxReplicas, DefaultMaxReplicas)
    IN [MinReplicas |-> minReplicas,
        MaxReplicas |-> IF maxReplicas < minReplicas THEN minReplicas ELSE maxReplicas,
        CPUtilization |-> validatePercentageMetric(labels, bits, LabelHpaCPU, DefaultCPUUtilization),
        MemoryUtilization |-> validatePercentageMetric(labels, bits, LabelHpaMemory, DefaultMemoryUtilization)]

----------------------------------------------------------------------------
(* Inputs of the autoscaler values *)

\* label values: empty, not a number, signed, the limits of [1,100], values
\* around them, 2^31 and 2^32 + 60
HpaLabelValues ==
    { <<>>, <<"x">>, <<"-", "1">>, <<"+", "2">>, <<"0">>, <<"1">>, <<"2">>, <<"5">>,
      <<"1", "0", "0">>, <<"1", "0", "1">>, <<"1", "5", "0">>,
      <<"2", "1", "4", "7", "4", "8", "3", "6", "4", "8">>,
      <<"4", "2", "9", "4", "9", "6", "7", "3", "5", "6">> }

HpaLabelMaps ==
    UNION {[S -> HpaLabelValues] : S \in SUBSET LabelKeys}

\* widths of int on the platforms Go builds for
IntSizes == {32, 64}

InitHpa ==
    /\ hpaLabels \in HpaLabelMaps
    /\ intSize \in IntSizes
    /\ hpaValues = NoHpaValues
    /\ IdleObjects
    /\ IdleGroup
    /\ IdlePod

GetResourceHpaValuesStep ==
    /\ lastOp = ""
    /\ hpaValues' = getResourceHpaValues(hpaLabels, intSize)
    /\ lastOp' = "getResourceHpaValues"
    /\ UNCHANGED <<objects, objects0, services, steps, groupVars, hpaLabels, intSize, podVars>>

NextHpa == GetResourceHpaValuesStep

SpecHpa == InitHpa /\ [][NextHpa]_vars

----------------------------------------------------------------------------
(* Claims about the autoscaler values *)

HpaRan == lastOp = "getResourceHpaValues"

\* C9: for every combination of HPA labels MaxReplicas >= MinReplicas; when
\* the max replicas read from its label is lower than the min replicas read
\* from its label, MaxReplicas is MinReplicas (min=5, max=2 gives max=5).
C9_MaxAtLeastMin ==
    HpaRan =>
        LET minReplicas == getHpaValue(hpaLabels, intSize, LabelHpaMinReplicas, DefaultMinReplicas)
            maxReplicas == getHpaValue(hpaLabels, intSize, LabelHpaMaxReplicas, DefaultMaxReplicas)
        IN /\ hpaValues.MaxReplicas >= hpaValues.MinReplicas
           /\ hpaValues.MinReplicas = minReplicas
           /\ maxReplicas < minReplicas => hpaValues.MaxReplicas = minReplicas
           /\ maxReplicas >= minReplicas => hpaValues.MaxReplicas = maxReplicas
           /\ (GetLabel(hpaLabels, LabelHpaMinReplicas) = <<"5">>
                 /\ GetLabel(hpaLabels, LabelHpaMaxReplicas) = <<"2">>)
                 => hpaValues.MaxReplicas = 5

\* min=5 and max=2 were given and both replicas came out as 5
C9_Witness ==
    /\ HpaRan
    /\ GetLabel(hpaLabels, LabelHpaMinReplicas) = <<"5">>
    /\ GetLabel(hpaLabels, LabelHpaMaxReplicas) = <<"2">>
    /\ hpaValues.MinReplicas = 5
    /\ hpaValues.MaxReplicas = 5

\* the integer a label value denotes, whatever its size ([err] = no integer)
LabelNumber(labels, label) == Atoi(GetLabel(labels, label), 64)

\* the integer v lies in [1,100]
InPercentRange(v) == ~v.neg /\ v.hi = 0 /\ v.lo >= 1 /\ v.lo <= 100

\* the claim about one metric: r is the value returned for it
UtilizationAsClaimed(r, label, defaultValue) ==
    LET v == LabelNumber(hpaLabels, label)
    IN /\ r >= 1 /\ r <= 100
       /\ ~v.err => IF InPercentRange(v) THEN r = v.lo ELSE r = defaultValue

\* C10: the CPU and memory utilization returned by getResourceHpaValues lie
\* in [1,100]; a label value outside [1,100] is replaced by the metric's
\* default (50, 70) and a value inside it is returned unchanged.
C10_UtilizationInRange ==
    HpaRan =>
        /\ UtilizationAsClaimed(hpaValues.CPUtilization, LabelHpaCPU, DefaultCPUUtilization)
        /\ UtilizationAsClaimed(hpaValues.MemoryUtilization, LabelHpaMemory, DefaultMemoryUtilization)

\* the four labels with the default of each
HpaFields ==
    { <<LabelHpaMinReplicas, DefaultMinReplicas>>, <<LabelHpaMaxReplicas, DefaultMaxReplicas>>,
      <<LabelHpaCPU, DefaultCPUUtilization>>, <<LabelHpaMemory, DefaultMemoryUtilization>> }

\* C11: for each of the four HPA labels getHpaValue gives the field's default
\* (1, 3, 50, 70) when the label is missing, is no integer for the build's
\* Atoi or is negative, and the label's integer itself when it is a
\* non-negative integer; the minimum of the autoscaler is that value.
C11_DefaultOrParsed ==
    HpaRan =>
        /\ hpaValues.MinReplicas = getHpaValue(hpaLabels, intSize, LabelHpaMinReplicas, DefaultMinReplicas)
        /\ \A f \in HpaFields :
              LET v == Atoi(GetLabel(hpaLabels, f[1]), intSize)
                  r == getHpaValue(hpaLabels, intSize, f[1], f[2])
              IN IF f[1] \notin DOMAIN hpaLabels \/ v.err \/ IsNegative(v)
                 THEN r = f[2]
                 ELSE v.hi < 32768 /\ r = v.hi * Limb + v.lo

----------------------------------------------------------------------------
(* Pod-level functions: values shared by the steps below.  A Go pointer or  *)
(* a slice that may be nil is a sequence: <<>> is nil, <<v>> holds v.       *)

Nil == <<>>
Ptr(v) == <<v>>

\* the zero kobject.HealthCheck; Test is a slice: Nil, or Ptr of its elements
HealthCheckZero ==
    [ Test |-> Nil, Timeout |-> 0, Interval |-> 0, Retries |-> 0, StartPeriod |-> 0,
      Disable |-> FALSE, HTTPPath |-> <<>>, HTTPPort |-> 0, TCPPort |-> 0 ]

\* len of a slice that may be nil
SliceLen(slice) == IF slice = Nil THEN 0 ELSE Len(slice[1])

\* the zero kobject.ServiceConfig, restricted to the fields the functions
\* modelled here read
ServiceConfigZero ==
    [ Name |-> <<>>, ContainerName |-> <<>>,
      Privileged |-> FALSE, User |-> <<>>, GroupAdd |-> Nil, FsGroup |-> 0,
      CapAdd |-> <<>>, CapDrop |-> <<>>, ReadOnly |-> FALSE,
      Restart |-> "", ImagePullPolicy |-> "",
      Volumes |-> <<>>, Args |-> <<>>, Port |-> <<>>,
      MemLimit |-> 0, CPULimit |-> 0, MemReservation |-> 0, CPUReservation |-> 0,
      DeployLabels |-> <<>>,
      HealthChecks |-> [Liveness |-> HealthCheckZero, Readiness |-> HealthCheckZero] ]

----------------------------------------------------------------------------
(* Names: FormatContainerName, GetContainerName, FormatResourceName *)

UpperCase == <<"A", "B", "C", "D", "E", "F", "G", "H", "I", "J", "K", "L", "M",
               "N", "O", "P", "Q", "R", "S", "T", "U", "V", "W", "X", "Y", "Z">>
LowerCase == <<"a", "b", "c", "d", "e", "f", "g", "h", "i", "j", "k", "l", "m",
               "n", "o", "p", "q", "r", "s", "t", "u", "v", "w", "x", "y", "z">>

IsUpper(c) == \E i \in DOMAIN UpperCase : UpperCase[i] = c

\* strings.ToLower on ASCII text
ToLower(s) ==
    [i \in DOMAIN s |->
        IF IsUpper(s[i])
        THEN LowerCase[CHOOSE k \in DOMAIN UpperCase : UpperCase[k] = s[i]]
        ELSE s[i]]

\* strings.Replace(name, "_", "-", -1)
ReplaceUnderscores(name) == [i \in DOMAIN name |-> IF name[i] = "_" THEN "-" ELSE name[i]]

FormatContainerName(name) == ReplaceUnderscores(name)

GetContainerName(service) ==
    LET name == IF Len(service.ContainerName) > 0
                THEN service.ContainerName
                ELSE service.Name
    IN FormatContainerName(name)

FormatResourceName(name) == ToLower(ReplaceUnderscores(name))

MaxNameLen == 2
NameChars == {"a", "B", "_"}
NameStrings == SeqsUpTo(NameChars, MaxNameLen)

InitNames ==
    /\ podService \in { [ServiceConfigZero EXCEPT !.Name = n, !.ContainerName = c] :
                          n \in NameStrings \ {<<>>}, c \in NameStrings }
    /\ arg \in NameStrings
    /\ opt = <<>>
    /\ podSpec = <<>>
    /\ podSpec0 = <<>>
    /\ outcome = ""
    /\ ret = <<>>
    /\ IdleObjects
    /\ IdleGroup
    /\ IdleHpa

GetContainerNameStep ==
    /\ lastOp = ""
    /\ ret' = GetContainerName(podService)
    /\ outcome' = "ok"
    /\ lastOp' = "GetContainerName"
    /\ UNCHANGED <<objects, objects0, services, steps, groupVars, hpaVars,
                   podService, opt, podSpec, podSpec0, arg>>

FormatResourceNameStep ==
    /\ lastOp = ""
    /\ ret' = FormatResourceName(arg)
    /\ outcome' = "ok"
    /\ lastOp' = "FormatResourceName"
    /\ UNCHANGED <<objects, objects0, services, steps, groupVars, hpaVars,
                   podService, opt, podSpec, podSpec0, arg>>

NextNames == GetContainerNameStep \/ FormatResourceNameStep

SpecNames == InitNames /\ [][NextNames]_vars

\* the name a function was given: the container name if the service sets one,
\* else the service name; the argument for a resource name
NameGiven ==
    IF lastOp = "GetContainerName"
    THEN (IF podService.ContainerName # <<>> THEN podService.ContainerName
          ELSE podService.Name)
    ELSE arg

\* C20: a name made by GetContainerName or FormatResourceName is the given
\* name lower-cased with every "_" replaced by "-": it holds no upper-case
\* letter and no underscore.
C20_NamesLowerCased ==
    lastOp \in {"GetContainerName", "FormatResourceName"} =>
        /\ Len(ret) = Len(NameGiven)
        /\ \A i \in DOMAIN ret :
              /\ ~IsUpper(ret[i])
              /\ ret[i] # "_"
              /\ IF NameGiven[i] = "_" THEN ret[i] = "-"
                 ELSE IF IsUpper(NameGiven[i])
                 THEN \E k \in DOMAIN UpperCase :
                         UpperCase[k] = NameGiven[i] /\ ret[i] = LowerCase[k]
                 ELSE ret[i] = NameGiven[i]

----------------------------------------------------------------------------
(* Health checks: configProbe *)

\* the zero api.Probe
ProbeZero ==
    [ Exec |-> Nil, HTTPGet |-> Nil, TCPSocket |-> Nil,
      TimeoutSeconds |-> 0, PeriodSeconds |-> 0, FailureThreshold |-> 0,
      InitialDelaySeconds |-> 0 ]

\* probe with the timing fields of the health check
WithTimings(probe, healthCheck) ==
    [probe EXCEPT !.TimeoutSeconds = healthCheck.Timeout,
                  !.PeriodSeconds = healthCheck.Interval,
                  !.FailureThreshold = healthCheck.Retries,
                  !.InitialDelaySeconds = healthCheck.StartPeriod]

\* a mutant: the TCP port is looked at before the HTTP target
configProbeTCPFirst(healthCheck) ==
    IF healthCheck = HealthCheckZero \/ healthCheck.Disable
    THEN [panic |-> FALSE, probe |-> Nil]
    ELSE IF SliceLen(healthCheck.Test) > 0
    THEN [panic |-> FALSE,
          probe |-> Ptr(WithTimings([ProbeZero EXCEPT
                        !.Exec = Ptr([Command |-> healthCheck.Test])], healthCheck))]
    ELSE IF healthCheck.TCPPort # 0
    THEN [panic |-> FALSE,
          probe |-> Ptr(WithTimings([ProbeZero EXCEPT
                        !.TCPSocket = Ptr([Port |-> healthCheck.TCPPort])], healthCheck))]
    ELSE IF healthCheck.HTTPPath # <<>> /\ healthCheck.HTTPPort # 0
    THEN [panic |-> FALSE,
          probe |-> Ptr(WithTimings([ProbeZero EXCEPT
                        !.HTTPGet = Ptr([Path |-> healthCheck.HTTPPath,
                                         Port |-> healthCheck.HTTPPort])], healthCheck))]
    ELSE [panic |-> TRUE, probe |-> Nil]

\* a mutant: a health check without a handler gives no probe instead of a panic
configProbeNoPanic(healthCheck) ==
    IF healthCheck = HealthCheckZero \/ healthCheck.Disable
    THEN [panic |-> FALSE, probe |-> Nil]
    ELSE IF SliceLen(healthCheck.Test) > 0
    THEN [panic |-> FALSE,
          probe |-> Ptr(WithTimings([ProbeZero EXCEPT
                        !.Exec = Ptr([Command |-> healthCheck.Test])], healthCheck))]
    ELSE IF healthCheck.HTTPPath # <<>> /\ healthCheck.HTTPPort # 0
    THEN [panic |-> FALSE,
          probe |-> Ptr(WithTimings([ProbeZero EXCEPT
                        !.HTTPGet = Ptr([Path |-> healthCheck.HTTPPath,
                                         Port |-> healthCheck.HTTPPort])], healthCheck))]
    ELSE IF healthCheck.TCPPort # 0
    THEN [panic |-> FALSE,
          probe |-> Ptr(WithTimings([ProbeZero EXCEPT
                        !.TCPSocket = Ptr([Port |-> healthCheck.TCPPort])], healthCheck))]
    ELSE [panic |-> FALSE, probe |-> Nil]

\* configProbe: [panic, probe]; probe is Nil or Ptr of an api.Probe
configProbe(healthCheck) ==
    IF healthCheck = HealthCheckZero \/ healthCheck.Disable
    THEN [panic |-> FALSE, probe |-> Nil]
    ELSE IF SliceLen(healthCheck.Test) > 0
    THEN [panic |-> FALSE,
          probe |-> Ptr(WithTimings([ProbeZero EXCEPT
                        !.Exec = Ptr([Command |-> healthCheck.Test])], healthCheck))]
    ELSE IF healthCheck.HTTPPath # <<>> /\ healthCheck.HTTPPort # 0
    THEN [panic |-> FALSE,
          probe |-> Ptr(WithTimings([ProbeZero EXCEPT
                        !.HTTPGet = Ptr([Path |-> healthCheck.HTTPPath,
                                         Port |-> healthCheck.HTTPPort])], healthCheck))]
    ELSE IF healthCheck.TCPPort # 0
    THEN [panic |-> FALSE,
          probe |-> Ptr(WithTimings([ProbeZero EXCEPT
                        !.TCPSocket = Ptr([Port |-> healthCheck.TCPPort])], healthCheck))]
    ELSE [panic |-> TRUE, probe |-> Nil]

\* health checks given to configProbe
HealthCheckTests == {Nil, Ptr(<<>>), Ptr(<<<<"c">>>>)}
HealthCheckPaths == {<<>>, <<"/">>}
HealthCheckPorts == {0, 80}
HealthCheckTimes == {0, 5}

HealthChecks ==
    { [HealthCheckZero EXCEPT !.Test = t, !.HTTPPath = hp, !.HTTPPort = hport,
                              !.TCPPort = tport, !.Disable = d, !.Timeout = tm,
                              !.Interval = iv] :
        t \in HealthCheckTests, hp \in HealthCheckPaths, hport \in HealthCheckPorts,
        tport \in HealthCheckPorts, d \in BOOLEAN, tm \in HealthCheckTimes,
        iv \in HealthCheckTimes }

InitProbe ==
    /\ arg \in HealthChecks
    /\ podService = <<>>
    /\ opt = <<>>
    /\ podSpec = <<>>
    /\ podSpec0 = <<>>
    /\ outcome = ""
    /\ ret = <<>>
    /\ IdleObjects
    /\ IdleGroup
    /\ IdleHpa

ConfigProbeStep ==
    /\ lastOp = ""
    /\ LET r == configProbe(arg)
       IN /\ ret' = r.probe
          /\ outcome' = IF r.panic THEN "panic" ELSE "ok"
    /\ lastOp' = "configProbe"
    /\ UNCHANGED <<objects, objects0, services, steps, groupVars, hpaVars,
                   podService, opt, podSpec, podSpec0, arg>>

NextProbe == ConfigProbeStep

SpecProbe == InitProbe /\ [][NextProbe]_vars

\* vocabulary of the probe claims, on the health check given
ProbeRan == lastOp = "configProbe"
HasCommand(h) == h.Test # Nil /\ h.Test[1] # <<>>
HasHTTPTarget(h) == h.HTTPPath # <<>> /\ h.HTTPPort # 0
HasTCPPort(h) == h.TCPPort # 0
Handlers(probe) == {f \in {"Exec", "HTTPGet", "TCPSocket"} : probe[f] # Nil}

\* C13: a probe that configProbe emits has exactly one handler: the command
\* if the health check has a test command, else HTTP if it has an HTTP target
\* (path and port), else TCP if it has a TCP port.
C13_OneHandlerByPrecedence ==
    (ProbeRan /\ ret # Nil) =>
        LET probe == ret[1]
        IN /\ Cardinality(Handlers(probe)) = 1
           /\ HasCommand(arg) =>
                 probe.Exec = Ptr([Command |-> arg.Test])
           /\ (~HasCommand(arg) /\ HasHTTPTarget(arg)) =>
                 probe.HTTPGet = Ptr([Path |-> arg.HTTPPath, Port |-> arg.HTTPPort])
           /\ (~HasCommand(arg) /\ ~HasHTTPTarget(arg) /\ HasTCPPort(arg)) =>
                 probe.TCPSocket = Ptr([Port |-> arg.TCPPort])

\* a probe was emitted for a health check with an HTTP target and a TCP port
\* and no command: HTTP was chosen
C13_Witness ==
    /\ ProbeRan /\ ret # Nil
    /\ ~HasCommand(arg) /\ HasHTTPTarget(arg) /\ HasTCPPort(arg)
    /\ Handlers(ret[1]) = {"HTTPGet"}

\* C14: configProbe emits no probe when the health check is disabled or is
\* entirely unset (the zero value), and panics when the health check is
\* enabled and set but has no command, no HTTP target and no TCP port.
C14_NoProbeOrFatal ==
    ProbeRan =>
        /\ (arg.Disable \/ arg = HealthCheckZero) => (outcome = "ok" /\ ret = Nil)
        /\ (~arg.Disable /\ arg # HealthCheckZero /\ ~HasCommand(arg)
              /\ ~HasHTTPTarget(arg) /\ ~HasTCPPort(arg)) => outcome = "panic"
        /\ outcome \in {"ok", "panic"}

\* a health check that only sets a timeout made configProbe panic
C14_Witness ==
    /\ ProbeRan /\ outcome = "panic"
    /\ arg = [HealthCheckZero EXCEPT !.Timeout = 5]

----------------------------------------------------------------------------
(* The pod spec and its construction steps *)

\* the zero api.Container and PodSpec, restricted to the fields the steps
\* modelled here write
ContainerZero ==
    [ Name |-> <<>>, SecurityContext |-> Nil, ImagePullPolicy |-> "",
      VolumeMounts |-> <<>>, LivenessProbe |-> Nil, ReadinessProbe |-> Nil,
      Args |-> <<>>, Ports |-> <<>>, Resources |-> [Limits |-> Nil, Requests |-> Nil] ]

PodSpecZero ==
    [ Containers |-> <<>>, Volumes |-> <<>>, SecurityContext |-> Nil,
      RestartPolicy |-> "" ]

\* SetVolumeNames / SetVolumeMountPaths: the set of keys of a list
SetVolumeNames(volumes) == {volumes[i].Name : i \in DOMAIN volumes}
SetVolumeMountPaths(volumesMount) == {volumesMount[i].MountPath : i \in DOMAIN volumesMount}

\* the first entry of list whose key field has the value key
FirstWith(list, field, key) ==
    list[CHOOSE i \in DOMAIN list :
            /\ list[i][field] = key
            /\ \A j \in 1..(i - 1) : list[j][field] # key]

\* the loop over the iterator of the set difference: order is the order in
\* which the set hands out its members
RECURSIVE AppendDiff(_, _, _, _, _)
AppendDiff(have, list, field, order, i) ==
    IF i > Len(order) THEN have
    ELSE AppendDiff(Append(have, FirstWith(list, field, order[i])), list, field, order, i + 1)

\* the keys the set difference iterates over
VolumeDiff(volumes, podVolumes) == SetVolumeNames(volumes) \ SetVolumeNames(podVolumes)
MountDiff(volumesMount, containerMounts) ==
    SetVolumeMountPaths(volumesMount) \ SetVolumeMountPaths(containerMounts)

\* a mutant: every volume of the list is appended
SetVolumesAppendAll(volumes, spec, order) ==
    [spec EXCEPT !.Volumes = spec.Volumes \o volumes]

\* SetVolumes(volumes)(podSpec); order enumerates VolumeDiff
SetVolumes(volumes, spec, order) ==
    [spec EXCEPT !.Volumes = AppendDiff(spec.Volumes, volumes, "Name", order, 1)]

\* a mutant: every mount of the list is appended to every container
SetVolumeMountsAppendAll(volumesMount, spec, orders) ==
    [spec EXCEPT !.Containers =
        [i \in DOMAIN spec.Containers |->
            [spec.Containers[i] EXCEPT
                !.VolumeMounts = spec.Containers[i].VolumeMounts \o volumesMount]]]

\* SetVolumeMounts(volumesMount)(podSpec); orders[i] enumerates the
\* difference for container i
SetVolumeMounts(volumesMount, spec, orders) ==
    [spec EXCEPT !.Containers =
        [i \in DOMAIN spec.Containers |->
            [spec.Containers[i] EXCEPT
                !.VolumeMounts = AppendDiff(spec.Containers[i].VolumeMounts,
                                            volumesMount, "MountPath", orders[i], 1)]]]

\* the iteration orders SetVolumeMounts may meet, one per container
MountOrders(volumesMount, spec) ==
    { orders \in [DOMAIN spec.Containers -> SeqsUpTo(SetVolumeMountPaths(volumesMount),
                                                    Cardinality(SetVolumeMountPaths(volumesMount)))] :
        \A i \in DOMAIN spec.Containers :
            orders[i] \in MapOrders(MountDiff(volumesMount, spec.Containers[i].VolumeMounts)) }

\* volumes and mounts given to the steps: two volumes share the name v, two
\* mounts share the path /a
MaxVolumes == 2
Volume(n, src) == [Name |-> n, Source |-> src]
VolumeMount(n, path) == [Name |-> n, MountPath |-> path]
VolumeUniverse == { Volume(<<"v">>, "claim"), Volume(<<"v">>, "configMap"),
                    Volume(<<"w">>, "claim") }
MountUniverse == { VolumeMount(<<"v">>, <<"/", "a">>), VolumeMount(<<"w">>, <<"/", "a">>),
                   VolumeMount(<<"v">>, <<"/", "b">>) }
VolumeLists == SeqsUpTo(VolumeUniverse, MaxVolumes)
MountLists == SeqsUpTo(MountUniverse, MaxVolumes)

ContainerWith(n, mounts) == [ContainerZero EXCEPT !.Name = n, !.VolumeMounts = mounts]

\* pod specs the steps start from: no, one or two containers, with and
\* without volumes and mounts of their own
PodSpecsWithVolumes ==
    { [PodSpecZero EXCEPT !.Volumes = vs, !.Containers = cs] :
        vs \in { <<>>, <<Volume(<<"v">>, "configMap")>> },
        cs \in { <<>> }
            \cup { <<ContainerWith(<<"a">>, m)>> :
                     m \in { <<>>, <<VolumeMount(<<"w">>, <<"/", "a">>)>> } }
            \cup { <<ContainerWith(<<"a">>, m), ContainerWith(<<"b">>, <<VolumeMount(<<"v">>, <<"/", "b">>)>>)>> :
                     m \in { <<>>, <<VolumeMount(<<"w">>, <<"/", "a">>)>> } } }

InitVolumes ==
    /\ podSpec \in PodSpecsWithVolumes
    /\ podSpec0 = podSpec
    /\ arg = <<>>
    /\ podService = <<>>
    /\ opt = <<>>
    /\ outcome = ""
    /\ ret = <<>>
    /\ IdleObjects
    /\ IdleGroup
    /\ IdleHpa

SetVolumesStep ==
    /\ steps < MaxSteps
    /\ \E volumes \in VolumeLists :
         \E order \in MapOrders(VolumeDiff(volumes, podSpec.Volumes)) :
            /\ podSpec' = SetVolumes(volumes, podSpec, order)
            /\ arg' = volumes
    /\ podSpec0' = podSpec
    /\ outcome' = "ok"
    /\ lastOp' = "SetVolumes"
    /\ steps' = steps + 1
    /\ UNCHANGED <<objects, objects0, services, groupVars, hpaVars, podService, opt, ret>>

SetVolumeMountsStep ==
    /\ steps < MaxSteps
    /\ \E volumesMount \in MountLists :
         \E orders \in MountOrders(volumesMount, podSpec) :
            /\ podSpec' = SetVolumeMounts(volumesMount, podSpec, orders)
            /\ arg' = volumesMount
    /\ podSpec0' = podSpec
    /\ outcome' = "ok"
    /\ lastOp' = "SetVolumeMounts"
    /\ steps' = steps + 1
    /\ UNCHANGED <<objects, objects0, services, groupVars, hpaVars, podService, opt, ret>>

NextVolumes == SetVolumesStep \/ SetVolumeMountsStep

SpecVolumes == InitVolumes /\ [][NextVolumes]_vars

\* list a begins with list b
HasPrefix(a, b) == Len(b) <= Len(a) /\ SubSeq(a, 1, Len(b)) = b

\* after the step that gave `list` (keyed by field): `after` is `before`
\* followed by one entry for each key of list that before lacked, that entry
\* being the first of list with the key
IsUnionOf(after, before, list, field) ==
    LET keysOf(l) == {l[i][field] : i \in DOMAIN l}
        added == SubSeq(after, Len(before) + 1, Len(after))
    IN /\ HasPrefix(after, before)
       /\ keysOf(added) = keysOf(list) \ keysOf(before)
       /\ Len(added) = Cardinality(keysOf(added))
       /\ \A i \in DOMAIN added : added[i] = FirstWith(list, field, added[i][field])

\* C12: SetVolumes and SetVolumeMounts are idempotent unions.  After either
\* step the entries the pod spec had are in place and unchanged and one entry
\* was added for each new key (volume name, or mount path per container), and
\* applying the same list once more changes nothing.
C12_IdempotentUnion ==
    /\ lastOp = "SetVolumes" =>
          /\ IsUnionOf(podSpec.Volumes, podSpec0.Volumes, arg, "Name")
          /\ podSpec.Containers = podSpec0.Containers
          /\ \A order \in MapOrders(VolumeDiff(arg, podSpec.Volumes)) :
                SetVolumes(arg, podSpec, order) = podSpec
    /\ lastOp = "SetVolumeMounts" =>
          /\ Len(podSpec.Containers) = Len(podSpec0.Containers)
          /\ \A i \in DOMAIN podSpec.Containers :
                IsUnionOf(podSpec.Containers[i].VolumeMounts,
                          podSpec0.Containers[i].VolumeMounts, arg, "MountPath")
          /\ podSpec.Volumes = podSpec0.Volumes
          /\ \A orders \in MountOrders(arg, podSpec) :
                SetVolumeMounts(arg, podSpec, orders) = podSpec

\* a list naming v twice and w was applied to a pod spec that had a volume v:
\* the pod spec keeps its v and gains w only
C12_Witness ==
    /\ lastOp = "SetVolumes"
    /\ podSpec0.Volumes = <<Volume(<<"v">>, "configMap")>>
    /\ arg = <<Volume(<<"v">>, "claim"), Volume(<<"w">>, "claim")>>
    /\ podSpec.Volumes = <<Volume(<<"v">>, "configMap"), Volume(<<"w">>, "claim")>>

----------------------------------------------------------------------------
(* Policies: GetImagePullPolicy, GetRestartPolicy and the steps using them *)

\* [err, policy]
GetImagePullPolicy(policy) ==
    CASE policy = "" -> [err |-> FALSE, policy |-> ""]
      [] policy = "Always" -> [err |-> FALSE, policy |-> "Always"]
      [] policy = "Never" -> [err |-> FALSE, policy |-> "Never"]
      [] policy = "IfNotPresent" -> [err |-> FALSE, policy |-> "IfNotPresent"]
      [] OTHER -> [err |-> TRUE, policy |-> ""]

\* a mutant: an unknown restart token means Always
GetRestartPolicyLenient(restart) ==
    CASE restart \in {"no", "none"} -> [err |-> FALSE, policy |-> "Never"]
      [] restart = "on-failure" -> [err |-> FALSE, policy |-> "OnFailure"]
      [] OTHER -> [err |-> FALSE, policy |-> "Always"]

\* [err, policy]
GetRestartPolicy(restart) ==
    CASE restart \in {"", "always", "any"} -> [err |-> FALSE, policy |-> "Always"]
      [] restart \in {"no", "none"} -> [err |-> FALSE, policy |-> "Never"]
      [] restart = "on-failure" -> [err |-> FALSE, policy |-> "OnFailure"]
      [] OTHER -> [err |-> TRUE, policy |-> ""]

\* the ImagePullPolicy step: [panic, spec]
ImagePullPolicy(service, spec) ==
    LET r == GetImagePullPolicy(service.ImagePullPolicy)
    IN IF r.err THEN [panic |-> TRUE, spec |-> spec]
       ELSE [panic |-> FALSE,
             spec |-> [spec EXCEPT !.Containers =
                          [i \in DOMAIN spec.Containers |->
                              [spec.Containers[i] EXCEPT !.ImagePullPolicy = r.policy]]]]

\* the RestartPolicy step: [panic, spec]
RestartPolicy(service, spec) ==
    LET r == GetRestartPolicy(service.Restart)
    IN IF r.err THEN [panic |-> TRUE, spec |-> spec]
       ELSE [panic |-> FALSE, spec |-> [spec EXCEPT !.RestartPolicy = r.policy]]

----------------------------------------------------------------------------
(* Security context: the SecurityContext step and the same code in the      *)
(* template filler of UpdateKubernetesObjects                               *)

SecurityContextZero ==
    [ Privileged |-> Nil, RunAsUser |-> Nil, RunAsGroup |-> Nil,
      Capabilities |-> Nil, ReadOnlyRootFilesystem |-> Nil ]

PodSecurityContextZero == [SupplementalGroups |-> Nil, FSGroup |-> Nil]

\* strconv.ParseInt(s, 10, 64): [err, neg, hi, lo]
ParseInt(s) == Atoi(s, 64)

\* the int64 a successful ParseInt returned
Int64Of(v) == [neg |-> IsNegative(v), hi |-> v.hi, lo |-> v.lo]

\* capabilities of the service, as the Capabilities object of the container
ConfigCapabilities(service) == [Add |-> service.CapAdd, Drop |-> service.CapDrop]

\* "set supplementalGroups"
WithSupplementalGroups(psc, service) ==
    IF service.GroupAdd # Nil THEN [psc EXCEPT !.SupplementalGroups = service.GroupAdd]
    ELSE psc

\* "set Pod FsGroup"
WithFsGroup(psc, service) ==
    IF service.FsGroup # 0 THEN [psc EXCEPT !.FSGroup = Ptr(service.FsGroup)] ELSE psc

PodSecurityContextOf(service) ==
    WithFsGroup(WithSupplementalGroups(PodSecurityContextZero, service), service)

\* uid, err := strconv.ParseInt(...); RunAsUser = &uid unless err
WithRunAsUser(sc, uid) ==
    IF uid.err THEN sc ELSE [sc EXCEPT !.RunAsUser = Ptr(Int64Of(uid))]

WithRunAsGroup(sc, gid) ==
    IF gid.err THEN sc ELSE [sc EXCEPT !.RunAsGroup = Ptr(Int64Of(gid))]

\* the switch on len(userparts)
UserParts(sc, userparts) ==
    IF Len(userparts) = 1 THEN WithRunAsUser(sc, ParseInt(userparts[1]))
    ELSE IF Len(userparts) = 2
    THEN WithRunAsGroup(WithRunAsUser(sc, ParseInt(userparts[1])), ParseInt(userparts[2]))
    ELSE sc

\* if service.User != "" { switch userparts := strings.Split(service.User, ":") ... }
UserDirective(sc, user) ==
    IF user = <<>> THEN sc ELSE UserParts(sc, Split(user, ":"))

WithPrivileged(sc, service) ==
    IF service.Privileged THEN [sc EXCEPT !.Privileged = Ptr(TRUE)] ELSE sc

\* "set capabilities if it is not empty"
WithCapabilities(sc, capabilities) ==
    IF Len(capabilities.Add) > 0 \/ Len(capabilities.Drop) > 0
    THEN [sc EXCEPT !.Capabilities = Ptr(capabilities)]
    ELSE sc

\* the container context up to the capabilities
ContainerSecurityContextOf(service, capabilities) ==
    WithCapabilities(UserDirective(WithPrivileged(SecurityContextZero, service), service.User),
                     capabilities)

AttachToContainer(spec, securityContext) ==
    IF securityContext # SecurityContextZero
    THEN [spec EXCEPT !.Containers[1].SecurityContext = Ptr(securityContext)]
    ELSE spec

AttachToPod(spec, podSecurityContext) ==
    IF podSecurityContext # PodSecurityContextZero
    THEN [spec EXCEPT !.SecurityContext = Ptr(podSecurityContext)]
    ELSE spec

\* "update template only if securityContext is not empty": [panic, spec];
\* writing to Containers[0] of a pod spec without containers panics
AttachSecurityContexts(spec, securityContext, podSecurityContext) ==
    IF securityContext # SecurityContextZero /\ Len(spec.Containers) = 0
    THEN [panic |-> TRUE, spec |-> spec]
    ELSE [panic |-> FALSE,
          spec |-> AttachToPod(AttachToContainer(spec, securityContext), podSecurityContext)]

\* a mutant: the contexts are attached whether empty or not
SecurityContextAlwaysAttaches(service, spec) ==
    IF Len(spec.Containers) = 0 THEN [panic |-> TRUE, spec |-> spec]
    ELSE [panic |-> FALSE,
          spec |-> [spec EXCEPT
                      !.Containers[1].SecurityContext =
                          Ptr(ContainerSecurityContextOf(service, ConfigCapabilities(service))),
                      !.SecurityContext = Ptr(PodSecurityContextOf(service))]]

\* the SecurityContext step: [panic, spec]
SecurityContext(service, spec) ==
    AttachSecurityContexts(spec,
        ContainerSecurityContextOf(service, ConfigCapabilities(service)),
        PodSecurityContextOf(service))

----------------------------------------------------------------------------
(* The template filler of UpdateKubernetesObjects.  The template is its     *)
(* Spec; volumesMount and volumes are what ConfigVolumes returned.  Fields  *)
(* that only copy a value computed elsewhere (environment, command,         *)
(* labels, affinity, host names) are left out.                              *)
(* Result: [panic, err, spec]                                               *)

StatefulStateController == "statefulset"

\* "set readOnlyRootFilesystem if it is enabled"
WithReadOnly(sc, service) ==
    IF service.ReadOnly THEN [sc EXCEPT !.ReadOnlyRootFilesystem = Ptr(TRUE)] ELSE sc

\* the security part of the filler: as the SecurityContext step, plus
\* readOnlyRootFilesystem
FillerSecurityContextOf(service, capabilities) ==
    WithReadOnly(ContainerSecurityContextOf(service, capabilities), service)

\* a letter or a digit: the class [a-zA-Z0-9]
IsAlphaNumeric(c) ==
    \/ \E i \in DOMAIN UpperCase : UpperCase[i] = c \/ LowerCase[i] = c
    \/ \E i \in DOMAIN Digits : Digits[i] = c

\* the end of the longest run of [a-zA-Z0-9] that begins at i + 1
ReferenceEnd(s, i) ==
    CHOOSE j \in i..Len(s) :
        /\ \A k \in (i + 1)..j : IsAlphaNumeric(s[k])
        /\ j = Len(s) \/ ~IsAlphaNumeric(s[j + 1])

RECURSIVE ReplaceAllString(_, _)
\* re.ReplaceAllString(arg, `$($1)`) with re = \$([a-zA-Z0-9]*), from index i
ReplaceAllString(s, i) ==
    IF i > Len(s) THEN <<>>
    ELSE IF s[i] = "$"
    THEN <<"$", "(">> \o SubSeq(s, i + 1, ReferenceEnd(s, i)) \o <<")">>
            \o ReplaceAllString(s, ReferenceEnd(s, i) + 1)
    ELSE <<s[i]>> \o ReplaceAllString(s, i + 1)

\* a mutant: the arguments are passed on as written
GetContainerArgsRaw(service) == service.Args

GetContainerArgs(service) ==
    [i \in 1..Len(service.Args) |-> ReplaceAllString(service.Args[i], 1)]

\* a resource.Quantity; scale is "" for NewQuantity, "m" for NewMilliQuantity,
\* the suffix for a parsed one
Quantity(value, scale) == [value |-> value, scale |-> scale]

\* resource.ParseQuantity on the label values given here: [err, quantity]
ParseQuantity(val) ==
    CASE val = "1Gi" -> [err |-> FALSE, quantity |-> Quantity(1, "Gi")]
      [] val = "500Mi" -> [err |-> FALSE, quantity |-> Quantity(500, "Mi")]
      [] OTHER -> [err |-> TRUE, quantity |-> Quantity(0, "")]

\* resourceList[name] = quantity
WithResource(resourceList, name, quantity) ==
    [n \in DOMAIN resourceList \cup {name} |->
        IF n = name THEN quantity ELSE resourceList[n]]

\* the memory and cpu entries of a resource list
MemoryAndCPU(mem, cpu) ==
    LET withMem == IF mem # 0 THEN WithResource(<<>>, "memory", Quantity(mem, "")) ELSE <<>>
    IN IF cpu # 0 THEN WithResource(withMem, "cpu", Quantity(cpu, "m")) ELSE withMem

\* "Check for ephemeral-storage in deploy labels"
WithEphemeralStorage(resourceList, deployLabels, label) ==
    IF label \in DOMAIN deployLabels /\ ~ParseQuantity(deployLabels[label]).err
    THEN WithResource(resourceList, "ephemeral-storage", ParseQuantity(deployLabels[label]).quantity)
    ELSE resourceList

\* DeployLabels[label] of a Go map: "" when the key is not set
DeployLabel(service, label) ==
    IF label \in DOMAIN service.DeployLabels THEN service.DeployLabels[label] ELSE ""

LabelEphemeralStorageLimit == "kompose.ephemeral-storage.limit"
LabelEphemeralStorageRequest == "kompose.ephemeral-storage.request"

\* the limits half of TranslatePodResource
TranslateLimits(service, template) ==
    IF service.MemLimit # 0 \/ service.CPULimit # 0
          \/ DeployLabel(service, LabelEphemeralStorageLimit) # ""
    THEN [template EXCEPT !.Containers[1].Resources.Limits =
             Ptr(WithEphemeralStorage(MemoryAndCPU(service.MemLimit, service.CPULimit),
                                      service.DeployLabels, LabelEphemeralStorageLimit))]
    ELSE template

\* the requests half of TranslatePodResource
TranslateRequests(service, template) ==
    IF service.MemReservation # 0 \/ service.CPUReservation # 0
          \/ DeployLabel(service, LabelEphemeralStorageRequest) # ""
    THEN [template EXCEPT !.Containers[1].Resources.Requests =
             Ptr(WithEphemeralStorage(MemoryAndCPU(service.MemReservation, service.CPUReservation),
                                      service.DeployLabels, LabelEphemeralStorageRequest))]
    ELSE template

\* a mutant: the ephemeral-storage labels are not looked at
TranslatePodResourceNoEphemeral(service, template) ==
    [template EXCEPT
        !.Containers[1].Resources.Limits =
            IF service.MemLimit # 0 \/ service.CPULimit # 0
            THEN Ptr(MemoryAndCPU(service.MemLimit, service.CPULimit)) ELSE @,
        !.Containers[1].Resources.Requests =
            IF service.MemReservation # 0 \/ service.CPUReservation # 0
            THEN Ptr(MemoryAndCPU(service.MemReservation, service.CPUReservation)) ELSE @]

TranslatePodResource(service, template) ==
    TranslateRequests(service, TranslateLimits(service, template))

\* the container ports of the service
ConfigPorts(service) == service.Port

\* the container's name, arguments and mounts and the pod's volumes
FillBasics(service, options, volumesMount, volumes, template) ==
    [template EXCEPT
        !.Containers[1].Name = GetContainerName(service),
        !.Containers[1].Args = GetContainerArgs(service),
        !.Containers[1].VolumeMounts = @ \o volumesMount,
        !.Volumes = IF options.Controller # StatefulStateController
                       \/ options.Volumes = "configMap"
                    THEN @ \o volumes ELSE @]

\* the image pull policy, then the restart policy; each error is returned
\* before its field is written
FillPolicies(template, pull, restart) ==
    IF pull.err THEN [panic |-> FALSE, err |-> TRUE, spec |-> template]
    ELSE IF restart.err
    THEN [panic |-> FALSE, err |-> TRUE,
          spec |-> [template EXCEPT !.Containers[1].ImagePullPolicy = pull.policy]]
    ELSE [panic |-> FALSE, err |-> FALSE,
          spec |-> [template EXCEPT !.Containers[1].ImagePullPolicy = pull.policy,
                                    !.RestartPolicy = restart.policy]]

\* template.Spec.Containers[0].Ports = ports
WithPorts(template, ports) == [template EXCEPT !.Containers[1].Ports = ports]

\* the probes, the resources, the security contexts, the ports and the
\* policies
FillRest(service, capabilities, template, liveness, readiness) ==
    IF liveness.panic \/ readiness.panic
    THEN [panic |-> TRUE, err |-> FALSE, spec |-> template]
    ELSE FillPolicies(
             WithPorts(AttachSecurityContexts(
                 TranslatePodResource(service,
                     [template EXCEPT !.Containers[1].LivenessProbe = liveness.probe,
                                      !.Containers[1].ReadinessProbe = readiness.probe]),
                 FillerSecurityContextOf(service, capabilities),
                 PodSecurityContextOf(service)).spec, ConfigPorts(service)),
             GetImagePullPolicy(service.ImagePullPolicy),
             GetRestartPolicy(service.Restart))

fillTemplate(service, options, capabilities, volumesMount, volumes, template) ==
    IF Len(template.Containers) = 0
    THEN [panic |-> TRUE, err |-> FALSE, spec |-> template]
    ELSE FillRest(service, capabilities,
                  FillBasics(service, options, volumesMount, volumes, template),
                  configProbe(service.HealthChecks.Liveness),
                  configProbe(service.HealthChecks.Readiness))

\* what ConfigVolumes returned: mounts, volumes, claims (a slice that may be
\* nil) and config maps
ConfigVolumesNothing == [volumesMount |-> <<>>, volumes |-> <<>>, pvc |-> Nil, cms |-> <<>>]

\* kobject.ConvertOptions: the fields read here
OptionsOf(controller, volumes) == [Controller |-> controller, Volumes |-> volumes]

\* the outcome of a step or of the filler as recorded in the state
OutcomeOf(r) ==
    IF r.panic THEN "panic"
    ELSE IF "err" \in DOMAIN r /\ r.err THEN "error"
    ELSE "ok"

\* a step or the filler ended with r: the pod spec and the outcome it leaves
Leaves(r) == podSpec' = r.spec /\ outcome' = OutcomeOf(r)

ImagePullPolicyStep ==
    /\ lastOp = ""
    /\ Leaves(ImagePullPolicy(podService, podSpec))
    /\ podSpec0' = podSpec
    /\ lastOp' = "ImagePullPolicy"
    /\ UNCHANGED <<objects, objects0, services, steps, groupVars, hpaVars,
                   podService, opt, arg, ret>>

RestartPolicyStep ==
    /\ lastOp = ""
    /\ Leaves(RestartPolicy(podService, podSpec))
    /\ podSpec0' = podSpec
    /\ lastOp' = "RestartPolicy"
    /\ UNCHANGED <<objects, objects0, services, steps, groupVars, hpaVars,
                   podService, opt, arg, ret>>

SecurityContextStep ==
    /\ lastOp = ""
    /\ Leaves(SecurityContext(podService, podSpec))
    /\ podSpec0' = podSpec
    /\ lastOp' = "SecurityContext"
    /\ UNCHANGED <<objects, objects0, services, steps, groupVars, hpaVars,
                   podService, opt, arg, ret>>

\* the filler applied to one pod template
FillTemplateStep ==
    /\ lastOp = ""
    /\ Leaves(fillTemplate(podService, opt, ConfigCapabilities(podService),
                           arg.volumesMount, arg.volumes, podSpec))
    /\ podSpec0' = podSpec
    /\ lastOp' = "fillTemplate"
    /\ UNCHANGED <<objects, objects0, services, steps, groupVars, hpaVars,
                   podService, opt, arg, ret>>

\* tokens given as policies: the known ones, known ones in another case, others
RestartTokens == {"", "always", "any", "no", "none", "on-failure",
                  "Always", "never", "unless-stopped"}
ImagePullTokens == {"", "Always", "Never", "IfNotPresent", "always", "ifnotpresent"}

\* pod specs with one or two containers, with and without policies of their own
PodSpecsWithPolicies ==
    { [PodSpecZero EXCEPT !.RestartPolicy = rp, !.Containers = cs] :
        rp \in {"", "Never"},
        cs \in { <<[ContainerZero EXCEPT !.Name = <<"a">>, !.ImagePullPolicy = ip]>> :
                    ip \in {"", "Never"} }
            \cup { << [ContainerZero EXCEPT !.Name = <<"a">>],
                      [ContainerZero EXCEPT !.Name = <<"b">>, !.ImagePullPolicy = "Never"] >> } }

InitPolicy ==
    /\ podService \in { [ServiceConfigZero EXCEPT !.Name = <<"a">>, !.Restart = r,
                                                  !.ImagePullPolicy = p] :
                          r \in RestartTokens, p \in ImagePullTokens }
    /\ podSpec \in PodSpecsWithPolicies
    /\ podSpec0 = podSpec
    /\ opt = OptionsOf("deployment", "")
    /\ arg = ConfigVolumesNothing
    /\ outcome = ""
    /\ ret = <<>>
    /\ IdleObjects
    /\ IdleGroup
    /\ IdleHpa

NextPolicy == RestartPolicyStep \/ ImagePullPolicyStep \/ FillTemplateStep

SpecPolicy == InitPolicy /\ [][NextPolicy]_vars

\* the policy the claim gives each known token
RestartPolicyClaimed ==
    [t \in {"", "always", "any", "no", "none", "on-failure"} |->
        IF t \in {"", "always", "any"} THEN "Always"
        ELSE IF t \in {"no", "none"} THEN "Never" ELSE "OnFailure"]
ImagePullPolicyClaimed == [t \in {"", "Always", "Never", "IfNotPresent"} |-> t]
KnownRestart == podService.Restart \in DOMAIN RestartPolicyClaimed
KnownImagePull == podService.ImagePullPolicy \in DOMAIN ImagePullPolicyClaimed

\* C19: GetRestartPolicy and GetImagePullPolicy return an error exactly for
\* the tokens outside their sets and the token's policy otherwise; on an
\* error the RestartPolicy and ImagePullPolicy steps panic and leave the pod
\* spec as it was, and the template filler returns the error without writing
\* that policy; otherwise the policy is written.
C19_UnknownPolicyFatal ==
    /\ lastOp \in {"RestartPolicy", "ImagePullPolicy", "fillTemplate"} =>
          /\ GetRestartPolicy(podService.Restart).err = ~KnownRestart
          /\ GetImagePullPolicy(podService.ImagePullPolicy).err = ~KnownImagePull
          /\ KnownRestart => GetRestartPolicy(podService.Restart).policy
                                = RestartPolicyClaimed[podService.Restart]
          /\ KnownImagePull => GetImagePullPolicy(podService.ImagePullPolicy).policy
                                  = ImagePullPolicyClaimed[podService.ImagePullPolicy]
    /\ lastOp = "RestartPolicy" =>
          IF KnownRestart
          THEN /\ outcome = "ok"
               /\ podSpec.RestartPolicy = RestartPolicyClaimed[podService.Restart]
          ELSE outcome = "panic" /\ podSpec = podSpec0
    /\ lastOp = "ImagePullPolicy" =>
          IF KnownImagePull
          THEN /\ outcome = "ok"
               /\ \A i \in DOMAIN podSpec.Containers :
                     podSpec.Containers[i].ImagePullPolicy
                        = ImagePullPolicyClaimed[podService.ImagePullPolicy]
          ELSE outcome = "panic" /\ podSpec = podSpec0
    /\ lastOp = "fillTemplate" =>
          /\ outcome = (IF KnownRestart /\ KnownImagePull THEN "ok" ELSE "error")
          /\ ~KnownImagePull =>
                podSpec.Containers[1].ImagePullPolicy = podSpec0.Containers[1].ImagePullPolicy
          /\ ~KnownRestart => podSpec.RestartPolicy = podSpec0.RestartPolicy
          /\ outcome = "ok" =>
                /\ podSpec.Containers[1].ImagePullPolicy
                      = ImagePullPolicyClaimed[podService.ImagePullPolicy]
                /\ podSpec.RestartPolicy = RestartPolicyClaimed[podService.Restart]

\* the RestartPolicy step panicked on "Always", a known token in the wrong case
C19_Witness ==
    /\ lastOp = "RestartPolicy"
    /\ podService.Restart = "Always"
    /\ outcome = "panic"
    /\ podSpec0.RestartPolicy = "Never"

\* user directives: UID, UID:GID, names, empty and signed segments, three
\* segments
UserDirectives ==
    { <<>>, <<"1">>, <<"1", "0">>, <<"x">>, <<"1", ":", "2">>, <<"x", ":", "2">>,
      <<"1", ":", "x">>, <<"x", ":", "x">>, <<"1", ":">>, <<":", "2">>,
      <<"1", ":", "2", ":", "5">>, <<"-", "1">>, <<"1", ":", "-", "2">>, <<"+", "5">> }

GroupAdds == {Nil, Ptr(<<>>), Ptr(<<1000>>)}
FsGroups == {0, 2000}
CapabilityLists == {<<>>, <<"ALL">>}

\* contexts a pod spec may hold before the step; no service above builds them
OldSecurityContext == [SecurityContextZero EXCEPT !.RunAsUser = Ptr([neg |-> FALSE, hi |-> 0, lo |-> 42])]
OldPodSecurityContext == [PodSecurityContextZero EXCEPT !.FSGroup = Ptr(42)]

PodSpecsWithContexts ==
    { [PodSpecZero EXCEPT !.SecurityContext = psc,
                          !.Containers = <<[ContainerZero EXCEPT !.Name = <<"a">>,
                                                                 !.SecurityContext = sc]>>] :
        psc \in {Nil, Ptr(OldPodSecurityContext)}, sc \in {Nil, Ptr(OldSecurityContext)} }

InitSecurity ==
    /\ podService \in { [ServiceConfigZero EXCEPT !.Name = <<"a">>, !.User = u,
                            !.Privileged = pr, !.GroupAdd = g, !.FsGroup = fs,
                            !.CapAdd = ca, !.CapDrop = cd, !.ReadOnly = ro] :
                          u \in UserDirectives, pr \in BOOLEAN, g \in GroupAdds,
                          fs \in FsGroups, ca \in CapabilityLists,
                          cd \in CapabilityLists, ro \in BOOLEAN }
    /\ podSpec \in PodSpecsWithContexts
    /\ podSpec0 = podSpec
    /\ opt = OptionsOf("deployment", "")
    /\ arg = ConfigVolumesNothing
    /\ outcome = ""
    /\ ret = <<>>
    /\ IdleObjects
    /\ IdleGroup
    /\ IdleHpa

NextSecurity == SecurityContextStep \/ FillTemplateStep

SpecSecurity == InitSecurity /\ [][NextSecurity]_vars

\* vocabulary of the security claims
SecurityRan == lastOp \in {"SecurityContext", "fillTemplate"}
UserSegments == IF podService.User = <<>> THEN <<>> ELSE Split(podService.User, ":")
IsNumber(seg) == ~ParseInt(seg).err
IsNonNegativeNumber(seg) == IsNumber(seg) /\ ~IsNegative(ParseInt(seg))
ContainerContext(spec) == spec.Containers[1].SecurityContext
\* the field of the container's context, Nil when there is no context
ContextField(spec, f) ==
    IF ContainerContext(spec) = Nil THEN Nil ELSE ContainerContext(spec)[1][f]
\* the service sets something other than the user in the container's context
SetsBesidesUser ==
    \/ podService.Privileged
    \/ podService.CapAdd # <<>> \/ podService.CapDrop # <<>>
    \/ lastOp = "fillTemplate" /\ podService.ReadOnly

\* C15: with a user directive RunAsUser is the first segment and RunAsGroup
\* the second of a directive UID or UID:GID, each only if the segment is a
\* non-negative integer; a malformed segment leaves its own field unset and
\* the other applied; more than two segments set neither; nothing aborts.
C15_UserDirective ==
    (SecurityRan /\ podService.User # <<>>) =>
        LET n == Len(UserSegments)
            uid == IF n \in {1, 2} /\ IsNonNegativeNumber(UserSegments[1])
                   THEN Ptr(Int64Of(ParseInt(UserSegments[1]))) ELSE Nil
            gid == IF n = 2 /\ IsNonNegativeNumber(UserSegments[2])
                   THEN Ptr(Int64Of(ParseInt(UserSegments[2]))) ELSE Nil
        IN /\ outcome = "ok"
           /\ IF uid = Nil /\ gid = Nil /\ ~SetsBesidesUser
              THEN ContainerContext(podSpec) = ContainerContext(podSpec0)
              ELSE /\ ContextField(podSpec, "RunAsUser") = uid
                   /\ ContextField(podSpec, "RunAsGroup") = gid

\* C16: nothing is attached when nothing was set.  Without privileged flag,
\* parsable user or group, capabilities (and, in the filler, read-only flag)
\* the container's SecurityContext is as it was; without added groups
\* (GroupAdd nil) and filesystem group the pod's SecurityContext is as it
\* was; a context that was attached has a field set.
C16_NothingAttachedWhenEmpty ==
    SecurityRan =>
        LET n == Len(UserSegments)
            parsable == \/ n \in {1, 2} /\ IsNumber(UserSegments[1])
                        \/ n = 2 /\ IsNumber(UserSegments[2])
        IN /\ (~SetsBesidesUser /\ ~parsable) =>
                 ContainerContext(podSpec) = ContainerContext(podSpec0)
           /\ (podService.GroupAdd = Nil /\ podService.FsGroup = 0) =>
                 podSpec.SecurityContext = podSpec0.SecurityContext
           /\ ContainerContext(podSpec) # ContainerContext(podSpec0) =>
                 /\ ContainerContext(podSpec) # Nil
                 /\ ContainerContext(podSpec)[1] # SecurityContextZero
           /\ podSpec.SecurityContext # podSpec0.SecurityContext =>
                 /\ podSpec.SecurityContext # Nil
                 /\ podSpec.SecurityContext[1] # PodSecurityContextZero

\* the step ran for a service whose only security setting is a user name
\* that is no number, on a pod spec holding contexts: both are as they were
C16_Witness ==
    /\ lastOp = "SecurityContext"
    /\ podService.User = <<"x">>
    /\ ~podService.Privileged /\ podService.CapAdd = <<>> /\ podService.CapDrop = <<>>
    /\ podService.GroupAdd = Nil /\ podService.FsGroup = 0
    /\ ContainerContext(podSpec0) = Ptr(OldSecurityContext)
    /\ podSpec0.SecurityContext = Ptr(OldPodSecurityContext)
    /\ podSpec = podSpec0

----------------------------------------------------------------------------
(* UpdateKubernetesObjects and UpdateKubernetesObjectsMultipleContainers    *)
(* Workloads carry strategy (Spec.Strategy.Type), template (the Spec of the *)
(* pod template) and volumeClaimTemplates (StatefulSet).                    *)

WorkloadKinds == {"Deployment", "StatefulSet", "DaemonSet", "Pod", "DeploymentConfig"}

Workload(k, n, strategy) ==
    [ kind |-> k, namespace |-> <<>>, name |-> n, strategy |-> strategy,
      template |-> [PodSpecZero EXCEPT !.Containers = <<[ContainerZero EXCEPT !.Name = n]>>],
      volumeClaimTemplates |-> Nil ]

Sibling(k, n) == [kind |-> k, apiVersion |-> "v1", namespace |-> <<>>, name |-> n]

\* k.UpdateController: the template filler applied to the pod template of a
\* workload, its error handed back; filled is what the filler returns for a
\* template.  For a kind outside the five workloads the update either fails
\* (strict) or leaves the object alone.  Result: [panic, err, obj]
UpdateController(obj, filled, strict) ==
    IF obj.kind \in WorkloadKinds
    THEN [panic |-> filled.panic, err |-> filled.err,
          obj |-> [obj EXCEPT !.template = filled.spec]]
    ELSE [panic |-> FALSE, err |-> strict, obj |-> obj]

\* persistentVolumeClaims[i] = *pvc[i] with APIVersion and Kind cleared
ClaimTemplates(pvc) ==
    [i \in DOMAIN pvc |-> [pvc[i] EXCEPT !.apiVersion = "", !.kind = ""]]

\* a mutant: only a Deployment is set to Recreate
VolumeStrategyDeploymentOnly(obj, service, options, pvc) ==
    IF Len(service.Volumes) > 0 /\ obj.kind = "Deployment"
    THEN [obj EXCEPT !.strategy = "Recreate"]
    ELSE obj

\* the switch under len(service.Volumes) > 0 in UpdateKubernetesObjects
VolumeStrategy(obj, service, options, pvc) ==
    IF Len(service.Volumes) > 0
    THEN CASE obj.kind = "Deployment" -> [obj EXCEPT !.strategy = "Recreate"]
           [] obj.kind = "DeploymentConfig" -> [obj EXCEPT !.strategy = "Recreate"]
           [] obj.kind = "StatefulSet" ->
                IF options.Volumes = "configMap" THEN obj
                ELSE [obj EXCEPT !.volumeClaimTemplates =
                         Ptr(ClaimTemplates(IF pvc = Nil THEN <<>> ELSE pvc[1]))]
           [] OTHER -> obj
    ELSE obj

\* the same switch in UpdateKubernetesObjectsMultipleContainers
VolumeStrategyMultipleContainers(obj, service) ==
    IF Len(service.Volumes) > 0 /\ obj.kind \in {"Deployment", "DeploymentConfig"}
    THEN [obj EXCEPT !.strategy = "Recreate"]
    ELSE obj

\* what the filler of UpdateKubernetesObjects returns for the template of obj
FilledFor(obj, service, options, cv) ==
    IF obj.kind \in WorkloadKinds
    THEN fillTemplate(service, options, ConfigCapabilities(service),
                      cv.volumesMount, cv.volumes, obj.template)
    ELSE [panic |-> FALSE, err |-> FALSE, spec |-> <<>>]

\* the rest of a pass, r being what UpdateController returned: [outcome, obj]
AfterUpdate(r, service, options, cv) ==
    IF r.panic THEN [outcome |-> "panic", obj |-> r.obj]
    ELSE IF r.err THEN [outcome |-> "error", obj |-> r.obj]
    ELSE [outcome |-> "ok", obj |-> VolumeStrategy(r.obj, service, options, cv.pvc)]

\* one pass of the loop "update supported controller" of UpdateKubernetesObjects
UpdateOne(obj, service, options, cv, strict) ==
    AfterUpdate(UpdateController(obj, FilledFor(obj, service, options, cv), strict),
                service, options, cv)

AfterUpdateMultipleContainers(r, service) ==
    IF r.err THEN [outcome |-> "error", obj |-> r.obj]
    ELSE [outcome |-> "ok", obj |-> VolumeStrategyMultipleContainers(r.obj, service)]

\* one pass of the loop of UpdateKubernetesObjectsMultipleContainers
UpdateOneMultipleContainers(obj, service, spec, strict) ==
    AfterUpdateMultipleContainers(
        UpdateController(obj, [panic |-> FALSE, err |-> FALSE, spec |-> spec], strict),
        service)

\* the loop over *objects, given the result of the pass on each object: the
\* passes run in order up to the first that does not end well, which ends the
\* call; the objects after it are not touched.  [outcome, objects]
UpdateLoop(objs, results) ==
    LET failed == {i \in DOMAIN objs : results[i].outcome # "ok"}
        stop == IF failed = {} THEN Len(objs)
                ELSE CHOOSE i \in failed : \A j \in failed : i <= j
    IN [outcome |-> IF failed = {} THEN "ok" ELSE results[stop].outcome,
        objects |-> [i \in DOMAIN objs |-> IF i <= stop THEN results[i].obj ELSE objs[i]]]

\* cv is what ConfigEnvs and ConfigVolumes returned: err, volumesMount,
\* volumes, pvc (Nil or Ptr of the claims), cms
UpdateKubernetesObjects(service, options, cv, objs, strict) ==
    IF cv.err THEN [outcome |-> "error", objects |-> objs]
    ELSE LET withClaims == IF cv.pvc # Nil /\ options.Controller # StatefulStateController
                           THEN objs \o cv.pvc[1] ELSE objs
             all == withClaims \o cv.cms
         IN UpdateLoop(all, [i \in DOMAIN all |-> UpdateOne(all[i], service, options, cv, strict)])

UpdateKubernetesObjectsMultipleContainers(service, objs, spec, strict) ==
    UpdateLoop(objs, [i \in DOMAIN objs |->
                        UpdateOneMultipleContainers(objs[i], service, spec, strict)])

\* inputs: the controller asked for and the objects made for it
Controllers == {"", "deployment", "daemonset", StatefulStateController}
Strategies == {"", "RollingUpdate"}

WorkloadsFor(controller) ==
    IF controller = StatefulStateController
    THEN { <<Workload("StatefulSet", <<"a">>, "")>> }
    ELSE IF controller = "daemonset"
    THEN { <<Workload("DaemonSet", <<"a">>, "")>> }
    ELSE IF controller = "deployment"
    THEN { <<Workload("Deployment", <<"a">>, st)>> : st \in Strategies }
         \cup { <<Workload("Deployment", <<"a">>, st), Workload("DeploymentConfig", <<"a">>, st)>> :
                  st \in Strategies }
    ELSE { <<Workload("Pod", <<"a">>, "")>>, <<Workload("DeploymentConfig", <<"a">>, "Rolling")>> }

ObjectListsFor(controller) ==
    WorkloadsFor(controller)
        \cup { w \o <<Sibling("Service", <<"a">>)>> : w \in WorkloadsFor(controller) }

\* volumes of the service and what ConfigVolumes made of them: claims and
\* config maps come from declared volumes only
DeclaredVolumes == { <<>>, <<<<"v">>>>, <<<<"v">>, <<"w">>>> }
ClaimsFor(vols) ==
    IF vols = <<>> THEN {Nil}
    ELSE {Nil} \cup { Ptr([i \in 1..k |-> Sibling("PersistentVolumeClaim", vols[i])]) :
                        k \in 1..Len(vols) }
ConfigMapsFor(vols) ==
    IF vols = <<>> THEN {<<>>} ELSE {<<>>, <<Sibling("ConfigMap", <<"c">>)>>}
ConfigVolumesResults(vols) ==
    { [err |-> e, volumesMount |-> [i \in DOMAIN vols |-> VolumeMount(vols[i], <<"/">> \o vols[i])],
       volumes |-> [i \in DOMAIN vols |-> Volume(vols[i], "claim")],
       pvc |-> c, cms |-> m] :
        e \in BOOLEAN, c \in ClaimsFor(vols), m \in ConfigMapsFor(vols) }

VolumeModes == {"persistentVolumeClaim", "configMap"}

InitUpdate ==
    /\ opt \in { OptionsOf(c, v) : c \in Controllers, v \in VolumeModes }
    /\ objects \in ObjectListsFor(opt.Controller)
    /\ objects0 = objects
    /\ podService \in { [ServiceConfigZero EXCEPT !.Name = <<"a">>, !.Volumes = vols,
                                                  !.Restart = r] :
                          vols \in DeclaredVolumes, r \in {"", "sometimes"} }
    /\ \E strict \in BOOLEAN :
          arg \in { cv @@ [strict |-> strict] :
                      cv \in ConfigVolumesResults(podService.Volumes) }
    /\ podSpec = [PodSpecZero EXCEPT !.Containers = <<[ContainerZero EXCEPT !.Name = <<"a">>],
                                                      [ContainerZero EXCEPT !.Name = <<"b">>]>>]
    /\ podSpec0 = podSpec
    /\ services = NoServices
    /\ lastOp = ""
    /\ steps = 0
    /\ outcome = ""
    /\ ret = <<>>
    /\ IdleGroup
    /\ IdleHpa

\* an update ended with r: the objects and the outcome it leaves
Returns(r) == objects' = r.objects /\ outcome' = r.outcome

UpdateKubernetesObjectsStep ==
    /\ lastOp = ""
    /\ Returns(UpdateKubernetesObjects(podService, opt, arg, objects, arg.strict))
    /\ objects0' = objects
    /\ lastOp' = "UpdateKubernetesObjects"
    /\ UNCHANGED <<services, steps, groupVars, hpaVars, podService, opt, podSpec,
                   podSpec0, arg, ret>>

UpdateKubernetesObjectsMultipleContainersStep ==
    /\ lastOp = ""
    /\ Returns(UpdateKubernetesObjectsMultipleContainers(podService, objects, podSpec,
                                                         arg.strict))
    /\ objects0' = objects
    /\ lastOp' = "UpdateKubernetesObjectsMultipleContainers"
    /\ UNCHANGED <<services, steps, groupVars, hpaVars, podService, opt, podSpec,
                   podSpec0, arg, ret>>

NextUpdate == UpdateKubernetesObjectsStep \/ UpdateKubernetesObjectsMultipleContainersStep

SpecUpdate == InitUpdate /\ [][NextUpdate]_vars

\* vocabulary of the update claims
UpdateRan == lastOp \in {"UpdateKubernetesObjects", "UpdateKubernetesObjectsMultipleContainers"}
HasStrategy(obj) == obj.kind \in WorkloadKinds
DeclaresVolumes == Len(podService.Volumes) > 0
Claims == IF arg.pvc = Nil THEN <<>> ELSE arg.pvc[1]
IsStandalone(claim) == \E i \in DOMAIN objects : objects[i] = claim
IsEmbedded(claim) ==
    \E i \in DOMAIN objects :
        /\ objects[i].kind = "StatefulSet"
        /\ objects[i].volumeClaimTemplates # Nil
        /\ \E j \in DOMAIN objects[i].volumeClaimTemplates[1] :
              objects[i].volumeClaimTemplates[1][j]
                 = [claim EXCEPT !.apiVersion = "", !.kind = ""]

\* C17: after either update succeeded for a service that declares volumes
\* every Deployment and DeploymentConfig of the list has strategy Recreate;
\* for a service without volumes every object's strategy is as it was.
C17_RecreateWithVolumes ==
    UpdateRan =>
        /\ (outcome = "ok" /\ DeclaresVolumes) =>
              \A i \in DOMAIN objects :
                 objects[i].kind \in {"Deployment", "DeploymentConfig"} =>
                    objects[i].strategy = "Recreate"
        /\ ~DeclaresVolumes =>
              \A i \in DOMAIN objects0 :
                 HasStrategy(objects0[i]) => objects[i].strategy = objects0[i].strategy

\* UpdateKubernetesObjects succeeded for a service with volumes on a
\* Deployment and a DeploymentConfig that were RollingUpdate
C17_Witness ==
    /\ lastOp = "UpdateKubernetesObjects" /\ outcome = "ok" /\ DeclaresVolumes
    /\ Len(objects0) >= 2
    /\ objects0[1].kind = "Deployment" /\ objects0[1].strategy = "RollingUpdate"
    /\ objects0[2].kind = "DeploymentConfig" /\ objects0[2].strategy = "RollingUpdate"
    /\ objects[1].strategy = "Recreate" /\ objects[2].strategy = "Recreate"

\* C18: after UpdateKubernetesObjects succeeded the claims are standalone
\* objects of the list exactly when the controller is not the stateful one;
\* for the stateful controller none is standalone and each is in the
\* StatefulSet's volume-claim templates: every claim is one or the other.
C18_ClaimsStandaloneOrEmbedded ==
    (lastOp = "UpdateKubernetesObjects" /\ outcome = "ok") =>
        \A k \in DOMAIN Claims :
            /\ IsStandalone(Claims[k]) = (opt.Controller # StatefulStateController)
            /\ opt.Controller = StatefulStateController => IsEmbedded(Claims[k])
            /\ IsStandalone(Claims[k]) \/ IsEmbedded(Claims[k])

----------------------------------------------------------------------------
(* Convergence of the list passes *)

\* C22: deduplication converges: running RemoveDupObjects on its own result
\* gives that result again.
C22_DedupConverges ==
    lastOp = "RemoveDupObjects" => RemoveDupObjects(objects) = objects

\* the pass dropped two later objects of one identity from a list of three
C22_Witness ==
    /\ lastOp = "RemoveDupObjects"
    /\ Len(objects0) = 3
    /\ Len(objects) = 1
    /\ IsMetaObject(objects[1])

\* C23: sorting is idempotent: running SortServicesFirst on its own result
\* gives that result again.
C23_SortIdempotent ==
    lastOp = "SortServicesFirst" => SortServicesFirst(objects) = objects

\* two different Services stood behind another object and were moved up
C23_Witness ==
    /\ lastOp = "SortServicesFirst"
    /\ Len(objects) = 3
    /\ ~IsService(objects0[1])
    /\ IsService(objects[1]) /\ IsService(objects[2])
    /\ objects[1] # objects[2]
    /\ ~IsService(objects[3])

----------------------------------------------------------------------------
(* Sign of the autoscaler values *)

\* C27: getHpaValue never returns a negative number, also for label values
\* at or above 2^31, so that MinReplicas and MaxReplicas of the autoscaler
\* are always >= 0.
C27_NeverNegative ==
    HpaRan =>
        /\ \A f \in HpaFields : getHpaValue(hpaLabels, intSize, f[1], f[2]) >= 0
        /\ hpaValues.MinReplicas >= 0
        /\ hpaValues.MaxReplicas >= 0

----------------------------------------------------------------------------
(* Members of a volume group *)

\* C28: in grouping mode "volume" two services are in the same group only if
\* their volume-identifier lists are the same, element by element and in the
\* same order; the concatenated group ID of two different lists differs.
C28_SameGroupSameVolumes ==
    (GroupingRan /\ groupMode = "volume") =>
        /\ \A g \in DOMAIN serviceConfigGroup :
              \A i, j \in 1..Len(serviceConfigGroup[g]) :
                  serviceConfigGroup[g][i].VolList = serviceConfigGroup[g][j].VolList
        /\ \A n, m \in DOMAIN serviceConfigs0 :
              serviceConfigs0[n].VolList # serviceConfigs0[m].VolList
                  => getServiceVolumesID(serviceConfigs0[n]) # getServiceVolumesID(serviceConfigs0[m])

----------------------------------------------------------------------------
(* Containers kept by the network-mode merge *)

\* the containers of the Deployments of objs
DeploymentContainers(objs) ==
    UNION {Range(objs[i].containers) : i \in {k \in 1..Len(objs) : IsDeployment(objs[k])}}

\* C26: fixNetworkModeToService never loses a container: every container of
\* every Deployment of the input list is in some Deployment of the output
\* list, whatever the join targets are; and when no service declares a
\* "service:" network mode the list is left unchanged.
C26_NoContainerLost ==
    lastOp = "fixNetworkModeToService" =>
        /\ DeploymentContainers(objects0) \subseteq DeploymentContainers(objects)
        /\ (\A n \in DOMAIN services : ~DeclaresJoin(n)) => objects = objects0

----------------------------------------------------------------------------
(* The sort and the network-mode merge *)

\* the Services of objs stand before every other object
ServicesFirst(objs) == \A i, j \in 1..Len(objs) : (IsService(objs[j]) /\ i < j) => IsService(objs[i])

\* C25: for a fixed order of the deployment mappings, sorting, merging and
\* sorting again gives the list that merging and sorting gives; and the merge
\* of a list with its Services first has its Services first.
C25_SortThenMerge ==
    lastOp = "fixNetworkModeToService" =>
        \A order \in MapOrders(DOMAIN services) :
            objects = fixNetworkModeToService(objects0, services, order) =>
                /\ SortServicesFirst(fixNetworkModeToService(SortServicesFirst(objects0), services, order))
                      = SortServicesFirst(objects)
                /\ ServicesFirst(objects0) => ServicesFirst(objects)

\* a Deployment stood before the Service, a join removed a Deployment and the
\* merged list still needs the final sort
C25_Witness ==
    /\ lastOp = "fixNetworkModeToService"
    /\ ~ServicesFirst(objects0)
    /\ Len(objects) = 2
    /\ Len(objects0) = 3
    /\ ~ServicesFirst(objects)
    /\ DeploymentContainers(objects) = DeploymentContainers(objects0)

----------------------------------------------------------------------------
(* The PodSpec builder: AddContainer, the resource and port steps, and      *)
(* Append, which applies a list of steps in order.  A step is named by its  *)
(* constructor; the service and the mounts and volumes it closes over are   *)
(* those of the state.  Result of a step: [panic, spec]                     *)

\* the container AddContainer appends, its probes computed
AddContainerWith(service, spec, liveness, readiness) ==
    IF liveness.panic \/ readiness.panic THEN [panic |-> TRUE, spec |-> spec]
    ELSE [panic |-> FALSE,
          spec |-> [spec EXCEPT !.Containers =
                       Append(@, [ContainerZero EXCEPT
                                     !.Name = GetContainerName(service),
                                     !.Args = service.Args,
                                     !.LivenessProbe = liveness.probe,
                                     !.ReadinessProbe = readiness.probe])]]

AddContainer(service, spec) ==
    AddContainerWith(service, spec, configProbe(service.HealthChecks.Liveness),
                     configProbe(service.HealthChecks.Readiness))

ResourcesLimits(service, spec) ==
    IF service.MemLimit # 0 \/ service.CPULimit # 0
    THEN [spec EXCEPT !.Containers =
             [i \in DOMAIN spec.Containers |->
                 [spec.Containers[i] EXCEPT
                     !.Resources.Limits = Ptr(MemoryAndCPU(service.MemLimit, service.CPULimit))]]]
    ELSE spec

ResourcesRequests(service, spec) ==
    IF service.MemReservation # 0 \/ service.CPUReservation # 0
    THEN [spec EXCEPT !.Containers =
             [i \in DOMAIN spec.Containers |->
                 [spec.Containers[i] EXCEPT
                     !.Resources.Requests =
                         Ptr(MemoryAndCPU(service.MemReservation, service.CPUReservation))]]]
    ELSE spec

SetPorts(service, spec) ==
    [spec EXCEPT !.Containers =
        [i \in DOMAIN spec.Containers |->
            IF GetContainerName(service) = spec.Containers[i].Name
            THEN [spec.Containers[i] EXCEPT !.Ports = ConfigPorts(service)]
            ELSE spec.Containers[i]]]

\* the one iteration order of a set of at most one member
OnlyOrder(S) == IF S = {} THEN <<>> ELSE <<CHOOSE x \in S : TRUE>>

\* a step that cannot panic ended with spec
Done(spec) == [panic |-> FALSE, spec |-> spec]

\* option(podSpec) for the step named option; cv holds the mounts and volumes
\* given to SetVolumeMounts and SetVolumes, at most one of each here
ApplyOption(option, service, cv, spec) ==
    CASE option = "AddContainer" -> AddContainer(service, spec)
      [] option = "ResourcesLimits" -> Done(ResourcesLimits(service, spec))
      [] option = "ResourcesRequests" -> Done(ResourcesRequests(service, spec))
      [] option = "SecurityContext" -> SecurityContext(service, spec)
      [] option = "SetVolumes" ->
            Done(SetVolumes(cv.volumes, spec, OnlyOrder(VolumeDiff(cv.volumes, spec.Volumes))))
      [] option = "SetVolumeMounts" ->
            Done(SetVolumeMounts(cv.volumesMount, spec,
                    [i \in DOMAIN spec.Containers |->
                        OnlyOrder(MountDiff(cv.volumesMount, spec.Containers[i].VolumeMounts))]))
      [] option = "SetPorts" -> Done(SetPorts(service, spec))
      [] option = "ImagePullPolicy" -> ImagePullPolicy(service, spec)
      [] option = "RestartPolicy" -> RestartPolicy(service, spec)

RECURSIVE AppendFrom(_, _, _, _, _)
\* the loop of Append at index i; a panic of a step ends it
AppendFrom(ops, service, cv, r, i) ==
    IF i > Len(ops) \/ r.panic THEN r
    ELSE AppendFrom(ops, service, cv, ApplyOption(ops[i], service, cv, r.spec), i + 1)

\* podSpec.Append(ops...)
PodSpecAppend(ops, service, cv, spec) == AppendFrom(ops, service, cv, Done(spec), 1)

----------------------------------------------------------------------------
(* Inputs of the builder *)

Options == {"AddContainer", "ResourcesLimits", "ResourcesRequests", "SecurityContext",
            "SetVolumes", "SetVolumeMounts", "SetPorts", "ImagePullPolicy", "RestartPolicy"}

\* the steps that configure one service's container
PerServiceOptions == {"SecurityContext", "ResourcesLimits", "ResourcesRequests", "ImagePullPolicy"}

\* the option lists given to Append: one step, two steps, and the security
\* and resource steps of one service
OptionLists ==
    {<<o>> : o \in Options} \cup {<<o1, o2>> : o1 \in Options, o2 \in Options}
        \cup {<<"SecurityContext", "ResourcesLimits", "ResourcesRequests">>}

\* argument lists: none, no reference, references $A and $b1 inside a URL
ArgLists == { <<>>, <<<<"c">>>>,
              <<<<"c">>, <<"$", "A", ":", "/", "$", "b", "1">>>> }

\* a service with every field of the builder steps set
FullService ==
    [ServiceConfigZero EXCEPT
        !.Args = <<<<"$", "A">>>>, !.Port = <<80>>, !.MemLimit = 64, !.CPULimit = 100,
        !.MemReservation = 32, !.User = <<"1">>, !.ReadOnly = TRUE, !.FsGroup = 2000,
        !.ImagePullPolicy = "Always", !.Restart = "no",
        !.DeployLabels = [l \in {LabelEphemeralStorageLimit, LabelEphemeralStorageRequest} |->
                             IF l = LabelEphemeralStorageLimit THEN "1Gi" ELSE "500Mi"]]

\* services named n: each setting alone, none, and all together
BuilderServicesNamed(n) ==
    { [ServiceConfigZero EXCEPT !.Name = n],
      [FullService EXCEPT !.Name = n],
      [ServiceConfigZero EXCEPT !.Name = n, !.MemLimit = 64],
      [ServiceConfigZero EXCEPT !.Name = n, !.CPUReservation = 50],
      [ServiceConfigZero EXCEPT !.Name = n, !.User = <<"1", ":", "2">>],
      [ServiceConfigZero EXCEPT !.Name = n, !.ReadOnly = TRUE],
      [ServiceConfigZero EXCEPT !.Name = n, !.GroupAdd = Ptr(<<1000>>)],
      [ServiceConfigZero EXCEPT !.Name = n, !.ImagePullPolicy = "Never"],
      [ServiceConfigZero EXCEPT !.Name = n, !.ImagePullPolicy = "sometimes"],
      [ServiceConfigZero EXCEPT !.Name = n, !.Port = <<80, 443>>],
      [ServiceConfigZero EXCEPT !.Name = n,
          !.DeployLabels = [l \in {LabelEphemeralStorageLimit} |-> "1Gi"]],
      [ServiceConfigZero EXCEPT !.Name = n, !.MemReservation = 32,
          !.DeployLabels = [l \in {LabelEphemeralStorageRequest} |-> "lots"]],
      [ServiceConfigZero EXCEPT !.Name = n,
          !.HealthChecks.Liveness = [HealthCheckZero EXCEPT !.TCPPort = 80]],
      [ServiceConfigZero EXCEPT !.Name = n,
          !.HealthChecks.Readiness = [HealthCheckZero EXCEPT !.Timeout = 5]] }
      \cup { [ServiceConfigZero EXCEPT !.Name = n, !.Args = a] : a \in ArgLists }

BuilderServices == BuilderServicesNamed(<<"a">>) \cup BuilderServicesNamed(<<"b">>)

\* a container as an earlier AddContainer and the steps of its service left it
BuiltContainer(n) ==
    [ContainerZero EXCEPT
        !.Name = n, !.ImagePullPolicy = "IfNotPresent",
        !.SecurityContext = Ptr(OldSecurityContext),
        !.Resources = [Limits |-> Ptr(MemoryAndCPU(16, 0)), Requests |-> Nil]]

\* pod specs the builder starts from: none, one bare container a, the built
\* containers of services a and b
BuilderPodSpecs ==
    { PodSpecZero,
      [PodSpecZero EXCEPT !.Containers = <<[ContainerZero EXCEPT !.Name = <<"a">>]>>],
      [PodSpecZero EXCEPT !.Containers = <<BuiltContainer(<<"a">>), BuiltContainer(<<"b">>)>>] }

\* what ConfigVolumes returned: nothing, or one mount and its volume
BuilderVolumes ==
    { ConfigVolumesNothing,
      [ConfigVolumesNothing EXCEPT !.volumesMount = <<VolumeMount(<<"v">>, <<"/", "a">>)>>,
                                   !.volumes = <<Volume(<<"v">>, "claim")>>] }

InitBuilder ==
    /\ podService \in BuilderServices
    /\ podSpec \in BuilderPodSpecs
    /\ podSpec0 = podSpec
    /\ opt = OptionsOf("deployment", "")
    /\ arg \in BuilderVolumes
    /\ outcome = ""
    /\ ret = <<>>
    /\ IdleObjects
    /\ IdleGroup
    /\ IdleHpa

\* podSpec.Append(ops...); ret records the steps given
AppendStep ==
    /\ lastOp = ""
    /\ \E ops \in OptionLists :
          /\ Leaves(PodSpecAppend(ops, podService, arg, podSpec))
          /\ ret' = ops
    /\ podSpec0' = podSpec
    /\ lastOp' = "Append"
    /\ UNCHANGED <<objects, objects0, services, steps, groupVars, hpaVars,
                   podService, opt, arg>>

NextBuilder == AppendStep \/ FillTemplateStep

SpecBuilder == InitBuilder /\ [][NextBuilder]_vars

----------------------------------------------------------------------------
(* Claims about the builder and the filler *)

\* Append was given exactly the steps ops and ended without panic
Appended(ops) == lastOp = "Append" /\ ret = ops /\ outcome = "ok"

FillerRan == lastOp = "fillTemplate" /\ outcome = "ok"

\* no "$" of the string is directly followed by a letter or a digit
NoBareReference(s) ==
    \A i \in 1..(Len(s) - 1) : s[i] = "$" => ~IsAlphaNumeric(s[i + 1])

\* out is args with each $VAR written $(VAR): as many strings, none with a
\* bare reference, a string without "$" as it was, "$A" as "$(A)"
ReferencesRewritten(out, args) ==
    /\ Len(out) = Len(args)
    /\ \A k \in 1..Len(args) :
          /\ NoBareReference(out[k])
          /\ (\A i \in 1..Len(args[k]) : args[k][i] # "$") => out[k] = args[k]
          /\ args[k] = <<"$", "A">> => out[k] = <<"$", "(", "A", ")">>

\* C21: the container filled by the single-service path and the container
\* appended by AddContainer both carry the service's args with each $VAR
\* reference rewritten to $(VAR).
C21_ArgsRewritten ==
    /\ FillerRan => ReferencesRewritten(podSpec.Containers[1].Args, podService.Args)
    /\ Appended(<<"AddContainer">>) =>
          ReferencesRewritten(podSpec.Containers[Len(podSpec.Containers)].Args, podService.Args)

\* C24: two steps other than the pair (SetPorts, AddContainer) applied
\* through Append give the same pod spec in either order; in particular
\* ResourcesLimits, ResourcesRequests, ImagePullPolicy, SecurityContext and
\* SetVolumeMounts give the same result before and after AddContainer.  Two
\* orders that both end in a panic count as the same result.
C24_StepsCommute ==
    (lastOp = "Append" /\ Len(ret) = 2 /\ {ret[1], ret[2]} # {"SetPorts", "AddContainer"}) =>
        /\ OutcomeOf(PodSpecAppend(<<ret[2], ret[1]>>, podService, arg, podSpec0)) = outcome
        /\ outcome = "ok" =>
              PodSpecAppend(<<ret[2], ret[1]>>, podService, arg, podSpec0).spec = podSpec

\* the security contexts and resources a path wrote for the first container
SecurityAndResources(spec) ==
    [ container |-> spec.Containers[1].SecurityContext,
      pod |-> spec.SecurityContext,
      resources |-> spec.Containers[1].Resources ]

\* C29: for the same service config the container security context, the pod
\* security context and the resource limits and requests written by the
\* builder steps SecurityContext, ResourcesLimits, ResourcesRequests equal
\* those written by the template filler of UpdateKubernetesObjects, the
\* read-only-root-filesystem flag and the ephemeral-storage entries included.
C29_PathsAgree ==
    (Appended(<<"SecurityContext", "ResourcesLimits", "ResourcesRequests">>)
        /\ Len(podSpec0.Containers) > 0) =>
        (OutcomeOf(fillTemplate(podService, opt, ConfigCapabilities(podService),
                                arg.volumesMount, arg.volumes, podSpec0)) = "ok"
            => SecurityAndResources(podSpec)
                  = SecurityAndResources(fillTemplate(podService, opt, ConfigCapabilities(podService),
                                                      arg.volumesMount, arg.volumes, podSpec0).spec))

\* C30: in a pod spec that holds containers of several services, a step
\* SecurityContext, ResourcesLimits, ResourcesRequests or ImagePullPolicy
\* applied for service S leaves the security context, the resources and the
\* pull policy of every container not named after S unchanged.
C30_OtherContainersUntouched ==
    \A o \in PerServiceOptions :
        (Appended(<<o>>) /\ Len(podSpec0.Containers) > 1) =>
            \A i \in DOMAIN podSpec0.Containers :
                podSpec0.Containers[i].Name # GetContainerName(podService) =>
                    /\ podSpec.Containers[i].SecurityContext = podSpec0.Containers[i].SecurityContext
                    /\ podSpec.Containers[i].Resources = podSpec0.Containers[i].Resources
                    /\ podSpec.Containers[i].ImagePullPolicy = podSpec0.Containers[i].ImagePullPolicy

============================================================================
